---- MODULE Spec2Model ----
(***************************************************************************)
(* Ant-colony foraging simulation (src/src/app/ant-simulation/             *)
(* ant-simulation.ts): the fixed-step integrator, the update pass, the     *)
(* per-ant decision/movement/deposit algorithm, the pheromone grids, the   *)
(* food-source lifecycle and the population manager.                       *)
(*                                                                         *)
(* Numbers are fixed point.  Lengths are in centi-units (100 = one world   *)
(* unit), times in milliseconds, angles in whole degrees (360 = 2*pi),     *)
(* pheromone intensities in 1e-5 (PheroOne = 1.0), food capacities in 1e-4 *)
(* (CapOne = 1.0), settings and Math.random() draws in thousandths.        *)
(* Scaled products are rounded down (\div).  The three pheromone grids are *)
(* stored sparsely: a function from the touched cell indexes to their      *)
(* non-zero values; every other cell of the Float32Array is 0.             *)
(***************************************************************************)
EXTENDS Integers, Sequences, FiniteSets, TLC

(* ----------------------------- program constants ----------------------- *)
WORLD_WIDTH == 12000
WORLD_HEIGHT == 8000
NEST_RADIUS == 400
FOOD_RADIUS_DEFAULT == 300
FOOD_CAPACITY_DEFAULT == 2500000
FOOD_DEPLETION_DEFAULT == 50
PHEROMONE_CELL_SIZE == 100
SIMULATION_STEP == 50
MAX_FRAME_DELTA == 500
FOOD_RETURN_TIMEOUT == 35000
NEST_SIGNAL_DURATION == 6000
NEST_SIGNAL_DEPOSIT_INTERVAL == 150
NEST_SIGNAL_STRENGTH == 450
NEST_SIGNAL_DECAY_RATE == 280
MAX_FOOD_SOURCES == 5
FOOD_RESPAWN_MIN_DELAY == 18000
FOOD_RESPAWN_MAX_DELAY == 32000

(* ----------------------------- units ----------------------------------- *)
LenOne == 100
PheroOne == 100000
CapOne == 10000
Milli == 1000
TwoPi == 360
Pi == 180

(* ----------------------------- arithmetic helpers ---------------------- *)
Max(a, b) == IF a >= b THEN a ELSE b
Min(a, b) == IF a <= b THEN a ELSE b
Abs(a) == IF a >= 0 THEN a ELSE -a

\* Math.floor(a / b) for b > 0.
FloorDiv(a, b) == a \div b

\* Rounding toward zero of a / b for b > 0 (scaling of a signed component).
TruncDiv(a, b) == IF a >= 0 THEN a \div b ELSE -((-a) \div b)

\* cos of a whole degree, in thousandths.
CosTable ==
  << 1000, 1000, 999, 999, 998, 996, 995, 993, 990, 988, 985, 982, 978, 974, 970, 966, 961, 956, 951, 946,
     940, 934, 927, 921, 914, 906, 899, 891, 883, 875, 866, 857, 848, 839, 829, 819, 809, 799, 788, 777,
     766, 755, 743, 731, 719, 707, 695, 682, 669, 656, 643, 629, 616, 602, 588, 574, 559, 545, 530, 515,
     500, 485, 469, 454, 438, 423, 407, 391, 375, 358, 342, 326, 309, 292, 276, 259, 242, 225, 208, 191,
     174, 156, 139, 122, 105, 87, 70, 52, 35, 17, 0, -17, -35, -52, -70, -87, -105, -122, -139, -156,
     -174, -191, -208, -225, -242, -259, -276, -292, -309, -326, -342, -358, -375, -391, -407, -423, -438, -454, -469, -485,
     -500, -515, -530, -545, -559, -574, -588, -602, -616, -629, -643, -656, -669, -682, -695, -707, -719, -731, -743, -755,
     -766, -777, -788, -799, -809, -819, -829, -839, -848, -857, -866, -875, -883, -891, -899, -906, -914, -921, -927, -934,
     -940, -946, -951, -956, -961, -966, -970, -974, -978, -982, -985, -988, -990, -993, -995, -996, -998, -999, -999, -1000,
     -1000, -1000, -999, -999, -998, -996, -995, -993, -990, -988, -985, -982, -978, -974, -970, -966, -961, -956, -951, -946,
     -940, -934, -927, -921, -914, -906, -899, -891, -883, -875, -866, -857, -848, -839, -829, -819, -809, -799, -788, -777,
     -766, -755, -743, -731, -719, -707, -695, -682, -669, -656, -643, -629, -616, -602, -588, -574, -559, -545, -530, -515,
     -500, -485, -469, -454, -438, -423, -407, -391, -375, -358, -342, -326, -309, -292, -276, -259, -242, -225, -208, -191,
     -174, -156, -139, -122, -105, -87, -70, -52, -35, -17, 0, 17, 35, 52, 70, 87, 105, 122, 139, 156,
     174, 191, 208, 225, 242, 259, 276, 292, 309, 326, 342, 358, 375, 391, 407, 423, 438, 454, 469, 485,
     500, 515, 530, 545, 559, 574, 588, 602, 616, 629, 643, 656, 669, 682, 695, 707, 719, 731, 743, 755,
     766, 777, 788, 799, 809, 819, 829, 839, 848, 857, 866, 875, 883, 891, 899, 906, 914, 921, 927, 934,
     940, 946, 951, 956, 961, 966, 970, 974, 978, 982, 985, 988, 990, 993, 995, 996, 998, 999, 999, 1000 >>

\* wrapAngle: ((angle % 2pi) + 2pi) % 2pi.
wrapAngle(angle) == ((angle % TwoPi) + TwoPi) % TwoPi

Cos(deg) == CosTable[wrapAngle(deg) + 1]
Sin(deg) == CosTable[wrapAngle(deg - 90) + 1]

\* normalizeAngle: the two while loops bring the angle into [-pi, pi].
normalizeAngle(angle) ==
  IF angle > Pi THEN angle - TwoPi * (((angle - Pi - 1) \div TwoPi) + 1)
  ELSE IF angle < -Pi THEN angle + TwoPi * (((-Pi - angle - 1) \div TwoPi) + 1)
  ELSE angle

\* interpolateAngle: from + normalize(to - from) * clamp(bias, 0, 1); bias in
\* thousandths.
interpolateAngle(from, to, bias) ==
  from + TruncDiv(normalizeAngle(to - from) * Min(Milli, Max(0, bias)), Milli)

\* Math.atan2(y, x) in whole degrees, in (-180, 180]; 0 for the zero vector.
\* The angle of the first octant is found by comparing tangents, and carried
\* to the quadrant and to the signs of y and x by symmetry.
AtanFirstOctant(y, x) == Cardinality({d \in 1..45 : x * Sin(d) <= y * Cos(d)})
QuadrantAngle(y, x, octant) == IF y <= x THEN octant ELSE 90 - octant
AtanFirstQuadrant(y, x) == QuadrantAngle(y, x, AtanFirstOctant(Min(y, x), Max(y, x)))
SignedAngle(y, x, quadrant) ==
  IF x = 0 /\ y = 0 THEN 0
  ELSE IF x >= 0 /\ y >= 0 THEN quadrant
  ELSE IF x < 0 /\ y >= 0 THEN 180 - quadrant
  ELSE IF x < 0 /\ y < 0 THEN quadrant - 180
  ELSE -quadrant
atan2(y, x) == SignedAngle(y, x, AtanFirstQuadrant(Abs(y), Abs(x)))

\* (Math.random() - 0.5) * scale radians, as whole degrees; rnd and scale in
\* thousandths.
RadMilliToDeg(r) == TruncDiv(r * 180, 3142)
CenteredRandom(rnd, scale) == RadMilliToDeg(TruncDiv((rnd - 500) * scale, Milli))

\* distance(a, b) squared.
DistSq(a, b) == (a.x - b.x) * (a.x - b.x) + (a.y - b.y) * (a.y - b.y)

\* Integer square root (Math.hypot / Math.sqrt rounded down).
RECURSIVE ISqrtSearch(_, _, _)
ISqrtSearch(n, lo, hi) ==
  IF lo >= hi THEN lo
  ELSE LET mid == (lo + hi + 1) \div 2
       IN IF mid * mid <= n THEN ISqrtSearch(n, mid, hi)
          ELSE ISqrtSearch(n, lo, mid - 1)
ISqrt(n) == ISqrtSearch(n, 0, 46340)

(* ----------------------------- world geometry -------------------------- *)
\* getWorldCenter, and the nest position of createInitialState.
getWorldCenter == [x |-> WORLD_WIDTH \div 2, y |-> WORLD_HEIGHT \div 2]

\* Faulty variant of clampToWorld: only x is clamped.
clampToWorldHorizontally(position) ==
  [x |-> Max(0, Min(WORLD_WIDTH, position.x)), y |-> position.y]

clampToWorld(position) ==
  [x |-> Max(0, Min(WORLD_WIDTH, position.x)),
   y |-> Max(0, Min(WORLD_HEIGHT, position.y))]

isAtWorldEdge(position) ==
  \/ position.x <= 60
  \/ position.y <= 60
  \/ position.x >= WORLD_WIDTH - 60
  \/ position.y >= WORLD_HEIGHT - 60

isInsideWorld(position, margin) ==
  /\ position.x >= margin
  /\ position.y >= margin
  /\ position.x <= WORLD_WIDTH - margin
  /\ position.y <= WORLD_HEIGHT - margin

projectMove(origin, direction, distance) ==
  [x |-> origin.x + FloorDiv(Cos(direction) * distance, Milli),
   y |-> origin.y + FloorDiv(Sin(direction) * distance, Milli)]

(* ----------------------------- pheromone grids ------------------------- *)
GridColumns == (WORLD_WIDTH + PHEROMONE_CELL_SIZE - 1) \div PHEROMONE_CELL_SIZE
GridRows == (WORLD_HEIGHT + PHEROMONE_CELL_SIZE - 1) \div PHEROMONE_CELL_SIZE

\* createPheromoneGrid: new Float32Array(columns * rows), all zero.
createPheromoneGrid == << >>

\* Faulty variant of sampleGridCell: columns and rows are only tested against
\* the upper ends of the grid.
sampleGridCellNoLowerBound(position) ==
  LET col == FloorDiv(position.x, PHEROMONE_CELL_SIZE)
      row == FloorDiv(position.y, PHEROMONE_CELL_SIZE)
  IN IF col >= GridColumns \/ row >= GridRows
     THEN -1
     ELSE row * GridColumns + col

\* sampleGridCell: the cell index of a position, -1 outside the grid.
sampleGridCell(position) ==
  LET col == FloorDiv(position.x, PHEROMONE_CELL_SIZE)
      row == FloorDiv(position.y, PHEROMONE_CELL_SIZE)
  IN IF col < 0 \/ row < 0 \/ col >= GridColumns \/ row >= GridRows
     THEN -1
     ELSE row * GridColumns + col

\* The grid with the given cells, as an explicit table of its values.
GridOf(values) == values @@ << >>

\* grid.values[index]
GridValue(grid, index) == IF index \in DOMAIN grid THEN grid[index] ELSE 0

\* grid.values[index] = value
GridStore(grid, index, value) ==
  IF value = 0
  THEN GridOf([i \in DOMAIN grid \ {index} |-> grid[i]])
  ELSE (index :> value) @@ grid

sampleGridValue(grid, position) ==
  LET index == sampleGridCell(position)
  IN IF index < 0 THEN 0 ELSE GridValue(grid, index)

\* Faulty variant of depositPheromone: the sum is stored without Math.min(1, .).
depositUnclamped(grid, position, amount) ==
  LET index == sampleGridCell(position)
  IN IF index < 0 THEN grid
     ELSE GridStore(grid, index, GridValue(grid, index) + amount)

\* Faulty variant of depositPheromone: the sum is written to a copy of the
\* values array, so the grid the ants share is left as it was.
depositIntoCopy(grid, position, amount) == grid

\* depositPheromone; amount in 1e-5.
depositPheromone(grid, position, amount) ==
  LET index == sampleGridCell(position)
  IN IF index < 0 THEN grid
     ELSE GridStore(grid, index, Min(PheroOne, GridValue(grid, index) + amount))

\* markNestSignal has the body of depositPheromone.
markNestSignal(grid, position, amount) ==
  LET index == sampleGridCell(position)
  IN IF index < 0 THEN grid
     ELSE GridStore(grid, index, Min(PheroOne, GridValue(grid, index) + amount))

\* factor = Math.max(0, 1 - evaporationRate * delta), in 1e-4; the rate in
\* thousandths per second, delta in milliseconds.
EvaporationFactor(evaporationRate, delta) ==
  Max(0, 10000 - FloorDiv(evaporationRate * delta, 100))

\* One cell of evaporatePheromones: nextValue > 0.001 ? nextValue : 0.
EvaporateCell(value, factor) ==
  IF value * factor > 100 * 10000 THEN FloorDiv(value * factor, 10000) ELSE 0

evaporatePheromones(grid, evaporationRate, delta) ==
  LET factor == EvaporationFactor(evaporationRate, delta)
      kept == {i \in DOMAIN grid : EvaporateCell(grid[i], factor) > 0}
  IN GridOf([i \in kept |-> EvaporateCell(grid[i], factor)])

(* ----------------------------- ants ------------------------------------ *)
\* createAnt: the fields the simulation reads after creation (speed,
\* pheromoneCooldown, personalIntensity and lastDirection are never read).
\* baseRnd and spreadRnd are the two Math.random() draws; spread in
\* milli-radians.
createAnt(id, position, spread, baseRnd, spreadRnd) ==
  [id |-> id,
   position |-> position,
   direction |-> wrapAngle(FloorDiv(baseRnd * TwoPi, Milli) + CenteredRandom(spreadRnd, spread)),
   carryingFood |-> FALSE,
   depositAccumulator |-> 0,
   stalledTime |-> 0,
   carryingTime |-> 0,
   forceReturn |-> FALSE,
   nestSignalTimer |-> NEST_SIGNAL_DURATION,
   nestSignalAccumulator |-> 0,
   pathIntegration |-> [x |-> 0, y |-> 0]]

\* Faulty variant of the carry timer: the return is forced only once the carry
\* time has passed the timeout.
CarryTimerPastTimeout(ant, delta) ==
  IF ant.carryingFood
  THEN IF ~ant.forceReturn /\ ant.carryingTime + delta > FOOD_RETURN_TIMEOUT
       THEN [ant EXCEPT !.forceReturn = TRUE, !.carryingTime = 0]
       ELSE [ant EXCEPT !.carryingTime = ant.carryingTime + delta]
  ELSE [ant EXCEPT !.carryingTime = 0, !.forceReturn = FALSE]

\* A faulty carry timer, for comparison with CarryTimer: the flag follows the
\* timer instead of latching, so it falls back once carryingTime restarts.
CarryTimerWithoutLatch(ant, delta) ==
  IF ant.carryingFood
  THEN IF ant.carryingTime + delta >= FOOD_RETURN_TIMEOUT
       THEN [ant EXCEPT !.forceReturn = TRUE, !.carryingTime = 0]
       ELSE [ant EXCEPT !.forceReturn = FALSE,
                        !.carryingTime = ant.carryingTime + delta]
  ELSE [ant EXCEPT !.carryingTime = 0, !.forceReturn = FALSE]

\* updateAnt, lines 427-436: the carry timer and the flag reset.
CarryTimer(ant, delta) ==
  IF ant.carryingFood
  THEN IF ~ant.forceReturn /\ ant.carryingTime + delta >= FOOD_RETURN_TIMEOUT
       THEN [ant EXCEPT !.forceReturn = TRUE, !.carryingTime = 0]
       ELSE [ant EXCEPT !.carryingTime = ant.carryingTime + delta]
  ELSE [ant EXCEPT !.carryingTime = 0, !.forceReturn = FALSE]

\* The options of samplePheromoneDirection: its defaults, and the ones
\* updateAnt passes for a carrying ant.
DefaultProbe ==
  [probeDistance |-> 400, offsets |-> <<-60, 0, 60>>,
   secondaryWeight |-> 0, influenceMultiplier |-> 1000]
CarryingProbe(forceReturn) ==
  [probeDistance |-> IF forceReturn THEN 600 ELSE 500,
   offsets |-> IF forceReturn THEN <<-64, -36, 0, 36, 64>> ELSE <<-60, 0, 60>>,
   secondaryWeight |-> IF forceReturn THEN 900 ELSE 550,
   influenceMultiplier |-> IF forceReturn THEN 1650 ELSE 1250]

\* Intensity of one probe, times 1000: the target grid's value at the sample
\* point plus the weighted value of the secondary grid.
ProbeAt(grid, secondaryGrid, options, samplePoint) ==
  sampleGridValue(grid, samplePoint) * Milli
  + (IF options.secondaryWeight > 0
     THEN sampleGridValue(secondaryGrid, samplePoint) * options.secondaryWeight
     ELSE 0)
ProbeIntensity(ant, grid, secondaryGrid, options, offset) ==
  ProbeAt(grid, secondaryGrid, options,
          projectMove(ant.position, ant.direction + offset, options.probeDistance))
ProbeIntensities(ant, grid, secondaryGrid, options) ==
  [k \in 1..Len(options.offsets) |->
     ProbeIntensity(ant, grid, secondaryGrid, options, options.offsets[k])]

\* The probe samplePheromoneDirection follows, 0 when no probe has a positive
\* intensity.  The stable descending sort puts first the earliest probe of
\* maximal intensity.
StrongestProbe(intensity) ==
  LET samples == {k \in DOMAIN intensity : intensity[k] > 0}
  IN IF samples = {} THEN 0
     ELSE CHOOSE k \in samples :
            /\ \A j \in samples : intensity[j] <= intensity[k]
            /\ \A j \in samples : intensity[j] = intensity[k] => k <= j

\* The bias alpha / (1 + alpha) of samplePheromoneDirection, in thousandths.
PheromoneBias(settings, options) ==
  LET alpha == FloorDiv(Max(0, settings.pheromoneInfluence) * options.influenceMultiplier, Milli)
  IN FloorDiv(alpha * Milli, alpha + Milli)

\* The result of samplePheromoneDirection for the strongest probe.
ProbeDirection(ant, settings, options, strongest) ==
  IF strongest = 0 THEN [found |-> FALSE, angle |-> 0]
  ELSE [found |-> TRUE,
        angle |-> interpolateAngle(ant.direction, ant.direction + options.offsets[strongest],
                                   PheromoneBias(settings, options))]

\* samplePheromoneDirection: [found, angle]; found = FALSE is the null result.
samplePheromoneDirection(ant, grid, secondaryGrid, settings, options) ==
  ProbeDirection(ant, settings, options,
                 StrongestProbe(ProbeIntensities(ant, grid, secondaryGrid, options)))

\* updateAnt, lines 446-496: the heading steered by the pheromone direction,
\* the home angle and the random jitter.
SteeredHeading(ant, food, settings, pheromoneDirection, homeAngle, randomJitter) ==
  LET \* homeVectorLength > 0.001
      hasHomeAngle == ant.pathIntegration.x # 0 \/ ant.pathIntegration.y # 0
      steered ==
        IF ant.carryingFood
        THEN IF pheromoneDirection.found
             THEN interpolateAngle(ant.direction, pheromoneDirection.angle,
                    IF ant.forceReturn
                    THEN Min(Milli, FloorDiv(settings.pheromoneInfluence * 1350, Milli))
                    ELSE settings.pheromoneInfluence)
             ELSE (IF sampleGridValue(food, ant.position) <= 2000
                   THEN interpolateAngle(ant.direction,
                          IF hasHomeAngle THEN homeAngle ELSE ant.direction,
                          IF ant.forceReturn THEN 550 ELSE 200)
                   ELSE ant.direction)
                  + TruncDiv(randomJitter * (IF ant.forceReturn THEN 400 ELSE 1000), Milli)
        ELSE IF pheromoneDirection.found
             THEN interpolateAngle(ant.direction, pheromoneDirection.angle, settings.pheromoneInfluence)
             ELSE ant.direction + randomJitter
      jittered == steered + TruncDiv(randomJitter * (IF ant.forceReturn THEN 100 ELSE 250), Milli)
  IN wrapAngle(IF ant.carryingFood /\ hasHomeAngle
               THEN interpolateAngle(jittered, homeAngle, IF ant.forceReturn THEN 550 ELSE 200)
               ELSE jittered)

\* Faulty variant of DesiredHeading: the ant senses the field it deposits
\* into.
DesiredHeadingSensingDeposit(ant, home, food, signals, settings, jitterRnd) ==
  SteeredHeading(ant, food, settings,
    samplePheromoneDirection(ant, IF ant.carryingFood THEN food ELSE home, signals, settings,
      IF ant.carryingFood THEN CarryingProbe(ant.forceReturn) ELSE DefaultProbe),
    atan2(-ant.pathIntegration.y, -ant.pathIntegration.x),
    CenteredRandom(jitterRnd,
      FloorDiv(settings.randomness * (IF ant.forceReturn THEN 350 ELSE 1000), Milli)))

\* updateAnt, lines 438-496: the new heading.  jitterRnd is the Math.random()
\* draw of randomJitter.
DesiredHeading(ant, home, food, signals, settings, jitterRnd) ==
  SteeredHeading(ant, food, settings,
    samplePheromoneDirection(ant, IF ant.carryingFood THEN home ELSE food, signals, settings,
      IF ant.carryingFood THEN CarryingProbe(ant.forceReturn) ELSE DefaultProbe),
    atan2(-ant.pathIntegration.y, -ant.pathIntegration.x),
    CenteredRandom(jitterRnd,
      FloorDiv(settings.randomness * (IF ant.forceReturn THEN 350 ELSE 1000), Milli)))

\* advanceAntWithinWorld, line 1255: the direction of the next attempt.
Rebiased(direction, inwardAngle, biasRnd, jitterRnd) ==
  wrapAngle(interpolateAngle(direction, inwardAngle, 550 + FloorDiv(biasRnd * 350, Milli))
            + CenteredRandom(jitterRnd, 785))

\* advanceAntWithinWorld, the re-bias loop (lines 1251-1258).  draws[k] is the
\* pair of Math.random() draws <<bias, jitter>> of attempt k.
RECURSIVE RebiasLoop(_, _, _, _, _, _)
RebiasLoop(origin, direction, moveDistance, preferredTarget, attempt, draws) ==
  LET nextPosition == projectMove(origin, direction, moveDistance)
  IN IF isInsideWorld(nextPosition, 5) \/ attempt >= 6
     THEN [direction |-> direction, nextPosition |-> nextPosition, attempts |-> attempt]
     ELSE RebiasLoop(origin,
                     Rebiased(direction,
                              atan2(preferredTarget.y - origin.y, preferredTarget.x - origin.x),
                              draws[attempt + 1][1], draws[attempt + 1][2]),
                     moveDistance, preferredTarget, attempt + 1, draws)

\* advanceAntWithinWorld, lines 1260-1265, given what the loop ended with.
Advanced(ant, loop) ==
  LET nextPosition == IF isInsideWorld(loop.nextPosition, 5)
                      THEN loop.nextPosition
                      ELSE clampToWorld(loop.nextPosition)
  IN [ant |-> [ant EXCEPT !.direction = loop.direction, !.position = nextPosition],
      movedSq |-> DistSq(ant.position, nextPosition),
      attempts |-> loop.attempts]

\* advanceAntWithinWorld: the ant with its new direction and position, the
\* square of the returned distance, and the number of re-bias attempts made.
advanceAntWithinWorld(ant, moveDistance, nestPosition, draws) ==
  IF moveDistance <= 0
  THEN [ant |-> ant, movedSq |-> 0, attempts |-> 0]
  ELSE Advanced(ant,
                RebiasLoop(ant.position, ant.direction, moveDistance,
                           IF ant.carryingFood THEN nestPosition ELSE getWorldCenter,
                           0, draws))

\* Faulty variant of IntegratePath: the new position is added instead of the
\* displacement, and the length is not clamped.
IntegratePathAbsolute(pathIntegration, previousPosition, position) ==
  [x |-> pathIntegration.x + position.x, y |-> pathIntegration.y + position.y]

\* updateAnt, lines 501-510: path integration by the realized displacement,
\* clamped to 1.5 x the larger world dimension.
MaxPathLength == FloorDiv(Max(WORLD_WIDTH, WORLD_HEIGHT) * 3, 2)
IntegratePath(pathIntegration, previousPosition, position) ==
  LET sum == [x |-> pathIntegration.x + position.x - previousPosition.x,
              y |-> pathIntegration.y + position.y - previousPosition.y]
      lengthSq == sum.x * sum.x + sum.y * sum.y
  IN IF lengthSq > MaxPathLength * MaxPathLength
     THEN LET currentPathLength == ISqrt(lengthSq) + 1
          IN [x |-> TruncDiv(sum.x * MaxPathLength, currentPathLength),
              y |-> TruncDiv(sum.y * MaxPathLength, currentPathLength)]
     ELSE sum

\* updateAnt, lines 512-522: stall bookkeeping and the stall escape.
\* movedDistance < 0.025 is 4 * movedSq < 25 in centi-units.
StallStep(ant, movedSq, delta, nestPosition, deflectRnd) ==
  IF 4 * movedSq < 25
  THEN LET stalled == ant.stalledTime + delta
       IN IF stalled > 400 /\ isAtWorldEdge(ant.position)
          THEN [ant EXCEPT
                  !.stalledTime = stalled,
                  !.direction =
                    wrapAngle(atan2(nestPosition.y - ant.position.y,
                                    nestPosition.x - ant.position.x)
                              + CenteredRandom(deflectRnd, 1257))]
          ELSE [ant EXCEPT !.stalledTime = stalled]
  ELSE [ant EXCEPT !.stalledTime = 0]

\* Faulty variant of the deposit grid: the grid named after the ant's load.
DepositGridNameOfLoad(ant) == IF ant.carryingFood THEN "home" ELSE "food"

\* Faulty variant of DepositStep: the deposit is not suppressed while the ant
\* is stalled.
DepositStepWhileStalled(ant, delta) ==
  LET acc == ant.depositAccumulator + delta
      count == IF acc >= 100 THEN FloorDiv(acc, 100) ELSE 0
  IN [ant |-> [ant EXCEPT !.depositAccumulator = acc - 100 * count],
      count |-> count]

\* updateAnt, lines 524-536: the trail deposit.  count is 0 when nothing is
\* deposited; the grid is "food" or "home".
DepositGridName(ant) == IF ant.carryingFood THEN "food" ELSE "home"
DepositStep(ant, delta) ==
  IF ant.stalledTime < 300
  THEN LET acc == ant.depositAccumulator + delta
           count == IF acc >= 100 THEN FloorDiv(acc, 100) ELSE 0
       IN [ant |-> [ant EXCEPT !.depositAccumulator = acc - 100 * count],
           count |-> count]
  ELSE [ant |-> [ant EXCEPT !.depositAccumulator = Min(ant.depositAccumulator, 100)],
        count |-> 0]

\* updateAnt, lines 538-550: the nest-signal beacon.
NestSignalStep(ant, delta) ==
  IF ant.nestSignalTimer > 0
  THEN LET timer == Max(0, ant.nestSignalTimer - delta)
       IN IF ant.stalledTime < 300
          THEN LET acc == ant.nestSignalAccumulator + delta
                   count == IF acc >= NEST_SIGNAL_DEPOSIT_INTERVAL
                            THEN FloorDiv(acc, NEST_SIGNAL_DEPOSIT_INTERVAL) ELSE 0
               IN [ant |-> [ant EXCEPT !.nestSignalTimer = timer,
                                       !.nestSignalAccumulator =
                                          acc - NEST_SIGNAL_DEPOSIT_INTERVAL * count],
                   count |-> count]
          ELSE [ant |-> [ant EXCEPT !.nestSignalTimer = timer], count |-> 0]
  ELSE [ant |-> [ant EXCEPT !.nestSignalAccumulator = 0], count |-> 0]

(* ----------------------------- food sources ---------------------------- *)
\* Faulty variant of findFoodSource: a source without capacity is returned too.
findFoodSourceIgnoringCapacity(sources, position) ==
  LET hits == {k \in 1..Len(sources) :
                 DistSq(position, sources[k].position) <= sources[k].radius * sources[k].radius}
  IN IF hits = {} THEN 0 ELSE CHOOSE k \in hits : \A j \in hits : k <= j

\* findFoodSource: the index of the first source within whose radius the
\* position lies and whose capacity is positive; 0 for null.
findFoodSource(sources, position) ==
  LET hits == {k \in 1..Len(sources) :
                 /\ DistSq(position, sources[k].position) <= sources[k].radius * sources[k].radius
                 /\ sources[k].capacity > 0}
  IN IF hits = {} THEN 0 ELSE CHOOSE k \in hits : \A j \in hits : k <= j

\* Faulty variant of PickupCapacity: a pickup takes two units.
PickupTakingTwo(capacity) == Max(0, capacity - 2 * CapOne)

\* Faulty variant of PickupCapacity: the unit is subtracted without Math.max(0, .).
PickupUnclamped(capacity) == capacity - CapOne

\* Faulty variant of PickupCapacity: the pickup leaves the capacity as it was.
PickupWithoutDecrement(capacity) == capacity

\* updateAnt, line 593: source.capacity = Math.max(0, source.capacity - 1).
PickupCapacity(capacity) == Max(0, capacity - CapOne)

\* updateAnt, lines 559-565: the outbound direction of a delivering ant, given
\* what samplePheromoneDirection returned.  outboundRnd is the Math.random()
\* draw of the randomized reversal.
OutboundDirection(ant, nestPosition, outboundRnd, outboundDirection) ==
  IF outboundDirection.found
  THEN outboundDirection.angle
  ELSE wrapAngle(atan2(nestPosition.y - ant.position.y, nestPosition.x - ant.position.x)
                 + Pi + CenteredRandom(outboundRnd, 942))
DeliveryHeading(ant, food, settings, nestPosition, outboundRnd) ==
  OutboundDirection(ant, nestPosition, outboundRnd,
                    samplePheromoneDirection(ant, food, food, settings, DefaultProbe))

\* updateAnt, lines 566-572: the point outside the nest the ant is put at.
NestExit(nestPosition, direction) ==
  clampToWorld([x |-> nestPosition.x + FloorDiv(Cos(direction) * (NEST_RADIUS + 50), Milli),
                y |-> nestPosition.y + FloorDiv(Sin(direction) * (NEST_RADIUS + 50), Milli)])

\* Faulty variant of Relocated: the path integration is not reset.
RelocatedKeepingPath(ant, direction, position, nestPosition) ==
  [ant EXCEPT !.direction = direction, !.position = position]

\* updateAnt, lines 565-577: the ant turned and put at its exit point.
Relocated(ant, direction, position, nestPosition) ==
  [ant EXCEPT !.direction = direction,
              !.position = position,
              !.pathIntegration = [x |-> position.x - nestPosition.x,
                                   y |-> position.y - nestPosition.y]]
Redirected(ant, direction, nestPosition) ==
  Relocated(ant, direction, NestExit(nestPosition, direction), nestPosition)
Outbound(ant, food, settings, nestPosition, outboundRnd) ==
  Redirected(ant, DeliveryHeading(ant, food, settings, nestPosition, outboundRnd), nestPosition)

\* Faulty variant of Unloaded: the delivering ant keeps its load.
UnloadedStillCarrying(ant) ==
  [ant EXCEPT !.carryingTime = 0,
              !.forceReturn = FALSE,
              !.nestSignalTimer = NEST_SIGNAL_DURATION,
              !.nestSignalAccumulator = 0]

\* updateAnt, lines 553-558: the fields a delivery resets.
Unloaded(ant) ==
  [ant EXCEPT !.carryingFood = FALSE, !.carryingTime = 0,
              !.forceReturn = FALSE,
              !.nestSignalTimer = NEST_SIGNAL_DURATION,
              !.nestSignalAccumulator = 0]

\* Faulty variant of Deliver: forceReturn is not cleared with carryingFood.
DeliverKeepingReturn(ant, food, settings, nestPosition, outboundRnd) ==
  Outbound([ant EXCEPT !.carryingFood = FALSE, !.carryingTime = 0,
                       !.nestSignalTimer = NEST_SIGNAL_DURATION,
                       !.nestSignalAccumulator = 0],
           food, settings, nestPosition, outboundRnd)

\* updateAnt, lines 552-580: the delivery of a carrying ant that ended its
\* move within the nest radius.
Deliver(ant, food, settings, nestPosition, outboundRnd) ==
  Outbound(Unloaded(ant), food, settings, nestPosition, outboundRnd)

\* updateAnt, line 499: moveDistance, in centi-units.
MoveDistance(settings, delta) ==
  FloorDiv(settings.antSpeed * delta, (Milli * Milli) \div LenOne)

\* updateAnt, lines 438-496: the ant, its carry timer advanced, with its new
\* heading.
Headed(timed, w, settings, rnd) ==
  [timed EXCEPT !.direction =
     DesiredHeading(timed, w.home, w.food, w.signals, settings, rnd.jitter)]

\* updateAnt, lines 498-510, given what advanceAntWithinWorld returned.
Integrated(headed, advanced) ==
  [ant |-> [advanced.ant EXCEPT !.pathIntegration =
              IntegratePath(headed.pathIntegration, headed.position, advanced.ant.position)],
   movedSq |-> advanced.movedSq,
   attempts |-> advanced.attempts]

Moved(headed, settings, delta, nestPosition, rnd) ==
  Integrated(headed,
             advanceAntWithinWorld(headed, MoveDistance(settings, delta), nestPosition, rnd.edge))

\* updateAnt, lines 512-522.
Stalled(moved, delta, nestPosition, rnd) ==
  [ant |-> StallStep(moved.ant, moved.movedSq, delta, nestPosition, rnd.deflect),
   attempts |-> moved.attempts]

\* updateAnt, lines 524-536, given the deposit count DepositStep found due:
\* the trail deposit into the grid the ant's load selects.
Deposited(stalled, deposit, w, settings) ==
  LET amount == settings.depositionRate * deposit.count * (PheroOne \div Milli)
      into == DepositGridName(stalled.ant)
  IN [ant |-> deposit.ant,
      attempts |-> stalled.attempts,
      home |-> IF deposit.count > 0 /\ into = "home"
               THEN depositPheromone(w.home, stalled.ant.position, amount) ELSE w.home,
      food |-> IF deposit.count > 0 /\ into = "food"
               THEN depositPheromone(w.food, stalled.ant.position, amount) ELSE w.food,
      depositCount |-> deposit.count,
      depositInto |-> into]

TrailDeposit(stalled, w, settings, delta) ==
  Deposited(stalled, DepositStep(stalled.ant, delta), w, settings)

\* updateAnt, lines 538-550, given the mark count NestSignalStep found due.
Signalled(u, signal, w) ==
  [ant |-> signal.ant,
   attempts |-> u.attempts,
   home |-> u.home,
   food |-> u.food,
   signals |-> IF signal.count > 0
               THEN markNestSignal(w.signals, u.ant.position,
                                   NEST_SIGNAL_STRENGTH * signal.count * (PheroOne \div Milli))
               ELSE w.signals,
   depositCount |-> u.depositCount,
   depositInto |-> u.depositInto]

NestSignal(u, w, delta) == Signalled(u, NestSignalStep(u.ant, delta), w)

\* updateAnt, lines 552-595: delivery at the nest, or the path-integration
\* reset at the nest and the pickup.  The result is the updated ant and the
\* parts of the state, with a record of what the update did (the deposit, its
\* cell and the cell's value after it, the pickup, the delivery).
Arrived(u, w, settings, nestPosition, rnd, forcedBefore) ==
  LET inNest == DistSq(u.ant.position, nestPosition) <= NEST_RADIUS * NEST_RADIUS
      delivers == u.ant.carryingFood /\ inNest
      source == IF u.ant.carryingFood THEN 0 ELSE findFoodSource(w.foodSources, u.ant.position)
  IN [ant |-> IF delivers
              THEN Deliver(u.ant, u.food, settings, nestPosition, rnd.outbound)
              ELSE [u.ant EXCEPT
                      !.pathIntegration =
                         IF inNest
                         THEN [x |-> u.ant.position.x - nestPosition.x,
                               y |-> u.ant.position.y - nestPosition.y]
                         ELSE @,
                      !.carryingFood = @ \/ source > 0,
                      !.carryingTime = IF source > 0 THEN 0 ELSE @],
      home |-> u.home,
      food |-> u.food,
      signals |-> u.signals,
      foodSources |->
        IF source > 0
        THEN [w.foodSources EXCEPT ![source].capacity = PickupCapacity(w.foodSources[source].capacity)]
        ELSE w.foodSources,
      deliveredFood |-> IF delivers THEN w.deliveredFood + 1 ELSE w.deliveredFood,
      did |-> [depositCount |-> u.depositCount,
               depositInto |-> u.depositInto,
               depositCell |-> sampleGridCell(u.ant.position),
               depositValue |->
                 sampleGridValue(IF u.depositInto = "home" THEN u.home ELSE u.food,
                                 u.ant.position),
               pickup |-> source,
               delivered |-> delivers,
               forcedBefore |-> forcedBefore,
               attempts |-> u.attempts]]

\* updateAnt (lines 420-596) on one ant.  w holds the parts of the
\* SimulationState the ant reads and writes: home, food, signals (the three
\* grids), foodSources and deliveredFood.  rnd holds the Math.random() draws:
\* jitter, edge (the <<bias, jitter>> pairs of the re-bias attempts), deflect
\* and outbound.
updateAnt(ant, w, settings, delta, nestPosition, rnd) ==
  Arrived(
    NestSignal(
      TrailDeposit(
        Stalled(
          Moved(Headed(CarryTimer(ant, delta), w, settings, rnd),
                settings, delta, nestPosition, rnd),
          delta, nestPosition, rnd),
        w, settings, delta),
      w, delta),
    w, settings, nestPosition, rnd, ant.forceReturn)

\* createFoodSource: the food form's capacity, radius and depletionRate at a
\* position clamped to the world; id stands for the fresh random id.
createFoodSource(id, position, form) ==
  [id |-> id,
   position |-> clampToWorld(position),
   radius |-> form.radius,
   capacity |-> form.capacity,
   maxCapacity |-> form.capacity,
   depletionRate |-> form.depletionRate]

\* Faulty variant of DepletedCapacity: settings.allowFoodDepletion is not
\* consulted.
DepletedCapacityAlways(source, settings, delta) ==
  LET multiplier == Max(0, settings.depletionMultiplier)
      depletion == FloorDiv(source.depletionRate * multiplier * delta, 100000)
  IN IF source.capacity > 0
     THEN Max(0, source.capacity - depletion)
     ELSE source.capacity

\* handleFoodDepletion, the body of the filter callback: the capacity a source
\* has when the callback returns.  Rates in thousandths, capacity in 1e-4.
DepletedCapacity(source, settings, delta) ==
  LET multiplier == Max(0, settings.depletionMultiplier)
      depletion == FloorDiv(source.depletionRate * multiplier * delta, 100000)
  IN IF settings.allowFoodDepletion /\ source.capacity > 0
     THEN Max(0, source.capacity - depletion)
     ELSE source.capacity

\* Faulty variant of KeepsSource: a source at exactly 0.1 is kept.
KeepsAtThreshold(capacity) == capacity >= CapOne \div 10

\* handleFoodDepletion, the value the filter callback returns:
\* source.capacity > 0.1.
KeepsSource(capacity) == capacity > CapOne \div 10

handleFoodDepletion(sources, settings, delta) ==
  LET depleted == [k \in 1..Len(sources) |->
                     [sources[k] EXCEPT !.capacity = DepletedCapacity(sources[k], settings, delta)]]
      keep(source) == KeepsSource(source.capacity)
  IN SelectSeq(depleted, keep)

\* reinforceFoodSources: the deposits of one source, in order: the centre,
\* then for each ring sample an inner and an outer point.
RingSamples(source) == Max(8, (source.radius * 6 + LenOne - 1) \div LenOne)
InnerRadius(source) == Max(40, FloorDiv(source.radius * 45, 100))
OuterRadius(source) == Max(InnerRadius(source), FloorDiv(source.radius * 90, 100))
BaseAmount(delta) == Max(8000, 4 * delta * (PheroOne \div Milli))

\* The deposits reinforceFoodSources makes: for every source with capacity
\* left the centre (kind 0) and, per ring sample i, an inner (kind 1) and an
\* outer (kind 2) point; each with the cell it falls into.
ReinforceDeposits(sources) ==
  UNION {
    LET source == sources[k]
        ring == 0..(RingSamples(source) - 1)
        angle(i) == FloorDiv(TwoPi * i, RingSamples(source))
    IN IF source.capacity <= 0 THEN {}
       ELSE {[source |-> k, kind |-> 0, i |-> 0, cell |-> sampleGridCell(source.position)]}
            \cup {[source |-> k, kind |-> 1, i |-> i,
                   cell |-> sampleGridCell(projectMove(source.position, angle(i), InnerRadius(source)))]
                    : i \in ring}
            \cup {[source |-> k, kind |-> 2, i |-> i,
                   cell |-> sampleGridCell(projectMove(source.position, angle(i), OuterRadius(source)))]
                    : i \in ring}
    : k \in 1..Len(sources)}

\* reinforceFoodSources.  Every deposit adds a non-negative amount and clamps
\* to 1, so the successive deposits leave in a cell the clamped sum of the
\* amounts deposited into it: baseAmount at a centre, 0.6 x baseAmount at an
\* inner point, 0.4 x baseAmount at an outer point.
reinforceFoodSources(grid, sources, delta) ==
  IF Len(sources) = 0 THEN grid
  ELSE LET baseAmount == BaseAmount(delta)
           deposits == {d \in ReinforceDeposits(sources) : d.cell >= 0}
           cells == {d.cell : d \in deposits}
           amount(c) ==
             baseAmount * Cardinality({d \in deposits : d.cell = c /\ d.kind = 0})
             + FloorDiv(baseAmount * 6, 10) * Cardinality({d \in deposits : d.cell = c /\ d.kind = 1})
             + FloorDiv(baseAmount * 4, 10) * Cardinality({d \in deposits : d.cell = c /\ d.kind = 2})
       IN GridOf([c \in DOMAIN grid \cup cells |->
                    IF c \in cells THEN Min(PheroOne, GridValue(grid, c) + amount(c))
                    ELSE grid[c]])

\* Faulty variant of nextFoodRespawnDelay: the draw ranges from 0.
nextFoodRespawnDelayFromZero(rnd) == FloorDiv(rnd * FOOD_RESPAWN_MAX_DELAY, Milli)

\* nextFoodRespawnDelay and randomInt, on a Math.random() draw in thousandths.
nextFoodRespawnDelay(rnd) ==
  IF FOOD_RESPAWN_MAX_DELAY <= FOOD_RESPAWN_MIN_DELAY
  THEN FOOD_RESPAWN_MIN_DELAY
  ELSE FOOD_RESPAWN_MIN_DELAY
       + FloorDiv(rnd * (FOOD_RESPAWN_MAX_DELAY - FOOD_RESPAWN_MIN_DELAY), Milli)
\* Faulty variant of randomInt: the range starts one below min.
randomIntFromBelow(min, max, rnd) == FloorDiv(rnd * (max - min + 1), Milli) + min - 1

randomInt(min, max, rnd) == FloorDiv(rnd * (max - min + 1), Milli) + min

\* Faulty variant of SpawnAllowed: only the distance to the nest is tested.
SpawnAllowedNearSources(sources, nestPosition, candidate) ==
  DistSq(candidate, nestPosition) >= (NEST_RADIUS + 600) * (NEST_RADIUS + 600)

\* spawnRandomFood, the test a candidate position must pass.
SpawnAllowed(sources, nestPosition, candidate) ==
  /\ DistSq(candidate, nestPosition) >= (NEST_RADIUS + 600) * (NEST_RADIUS + 600)
  /\ \A k \in 1..Len(sources) :
       DistSq(candidate, sources[k].position)
         >= (sources[k].radius + 200) * (sources[k].radius + 200)

\* spawnRandomFood.  picks[i] is the outcome of the attempts of source i: a
\* candidate position, which is placed when it passes the test; a candidate
\* that fails it stands for fifty failed attempts, which place nothing.
RECURSIVE spawnRandomFood(_, _, _, _, _, _, _)
spawnRandomFood(sources, count, nestPosition, form, picks, nextId, i) ==
  IF i > count THEN sources
  ELSE IF SpawnAllowed(sources, nestPosition, picks[i])
       THEN spawnRandomFood(Append(sources, createFoodSource(nextId + i, picks[i], form)),
                            count, nestPosition, form, picks, nextId, i + 1)
       ELSE spawnRandomFood(sources, count, nestPosition, form, picks, nextId, i + 1)

\* Faulty variant of updateFoodRespawn: the number of sources to spawn is not
\* capped by the free slots.
updateFoodRespawnUncapped(sources, timer, autoFood, delta, nestPosition, form, rnd, nextId) ==
  IF ~autoFood THEN [foodSources |-> sources, foodRespawnTimer |-> timer]
  ELSE IF Len(sources) >= MAX_FOOD_SOURCES
       THEN [foodSources |-> sources,
             foodRespawnTimer |-> Max(timer, nextFoodRespawnDelay(rnd.delay))]
       ELSE IF timer - delta > 0
            THEN [foodSources |-> sources, foodRespawnTimer |-> timer - delta]
            ELSE [foodSources |->
                    spawnRandomFood(sources, randomInt(2, 3, rnd.count), nestPosition, form,
                                    rnd.picks, nextId, 1),
                  foodRespawnTimer |-> nextFoodRespawnDelay(rnd.delay)]

\* updateFoodRespawn: the new food sources and respawn timer.  rnd holds the
\* draws: count (randomInt), delay (nextFoodRespawnDelay) and picks.
updateFoodRespawn(sources, timer, autoFood, delta, nestPosition, form, rnd, nextId) ==
  IF ~autoFood THEN [foodSources |-> sources, foodRespawnTimer |-> timer]
  ELSE IF Len(sources) >= MAX_FOOD_SOURCES
       THEN [foodSources |-> sources,
             foodRespawnTimer |-> Max(timer, nextFoodRespawnDelay(rnd.delay))]
       ELSE IF timer - delta > 0
            THEN [foodSources |-> sources, foodRespawnTimer |-> timer - delta]
            ELSE LET availableSlots == Max(0, MAX_FOOD_SOURCES - Len(sources))
                     spawnCount == Min(availableSlots, randomInt(2, 3, rnd.count))
                 IN [foodSources |->
                       IF spawnCount > 0
                       THEN spawnRandomFood(sources, spawnCount, nestPosition, form,
                                            rnd.picks, nextId, 1)
                       ELSE sources,
                     foodRespawnTimer |-> nextFoodRespawnDelay(rnd.delay)]

(* ----------------------------- population ------------------------------ *)
\* updateAntPopulation.  Growth pushes createAnt(state.ants.length + i, ...)
\* for i = 0 .. additional - 1, state.ants.length being read at each push;
\* draws[i + 1] holds the two Math.random() draws of that ant.
RECURSIVE GrowPopulation(_, _, _, _, _)
GrowPopulation(ants, additional, nestPosition, draws, i) ==
  IF i >= additional THEN ants
  ELSE GrowPopulation(
         Append(ants, createAnt(Len(ants) + i, nestPosition, 262,
                                draws[i + 1][1], draws[i + 1][2])),
         additional, nestPosition, draws, i + 1)

\* Faulty variant of updateAntPopulation: the splice starts one element late.
updateAntPopulationLateSplice(ants, targetCount, nestPosition, draws) ==
  IF Len(ants) = targetCount THEN ants
  ELSE IF targetCount > Len(ants)
       THEN GrowPopulation(ants, targetCount - Len(ants), nestPosition, draws, 0)
       ELSE SubSeq(ants, 1, targetCount + 1)

updateAntPopulation(ants, targetCount, nestPosition, draws) ==
  IF Len(ants) = targetCount THEN ants
  ELSE IF targetCount > Len(ants)
       THEN GrowPopulation(ants, targetCount - Len(ants), nestPosition, draws, 0)
       ELSE SubSeq(ants, 1, targetCount)

(* ----------------------------- clock ----------------------------------- *)
\* Faulty variant of the frame's scaled time: MAX_FRAME_DELTA is not applied.
ScaledDeltaUnclamped(rawDelta, timeScale) == FloorDiv(rawDelta * timeScale, Milli)

\* tick, line 379: the frame's scaled time, clamped.  rawDelta in
\* milliseconds, timeScale in thousandths.
ScaledDelta(rawDelta, timeScale) == Min(FloorDiv(rawDelta * timeScale, Milli), MAX_FRAME_DELTA)

\* Faulty variant of Accumulate: the frame's time replaces the accumulator, so
\* the remainder of the previous frame is lost.
AccumulateDroppingRemainder(accumulator, rawDelta, timeScale) == ScaledDelta(rawDelta, timeScale)

\* tick, lines 375-380: the accumulator after the frame's time is added.
Accumulate(accumulator, rawDelta, timeScale) == accumulator + ScaledDelta(rawDelta, timeScale)

\* tick, lines 382-385: the number of iterations of the while loop and the
\* accumulator it leaves.
PassesDue(accumulator) == accumulator \div SIMULATION_STEP
RemainderAfter(accumulator) == accumulator % SIMULATION_STEP

(* ----------------------------- the update pass ----------------------- *)
\* A SimulationState without ants, food or trails.
NoState ==
  [ants |-> << >>, foodSources |-> << >>, homePheromones |-> createPheromoneGrid,
   foodPheromones |-> createPheromoneGrid, nestSignals |-> createPheromoneGrid,
   stats |-> [deliveredFood |-> 0, elapsedSeconds |-> 0], foodRespawnTimer |-> 0]

\* Faulty variant of createInitialState: the loop starts at i = 1.
createInitialStateOneFewer(settings, draws, delayRnd) ==
  [NoState EXCEPT
     !.ants = [i \in 1..(settings.antCount - 1) |->
                 createAnt(i, getWorldCenter, 524, draws[i][1], draws[i][2])] @@ << >>,
     !.foodRespawnTimer = nextFoodRespawnDelay(delayRnd)]

\* createInitialState: settings.antCount ants created at the nest with a
\* spread of pi / 6, no food, three new grids, zero statistics and a drawn
\* respawn delay.  draws[i] holds the two Math.random() draws of ant i - 1.
createInitialState(settings, draws, delayRnd) ==
  [NoState EXCEPT
     !.ants = [i \in 1..settings.antCount |->
                 createAnt(i - 1, getWorldCenter, 524, draws[i][1], draws[i][2])] @@ << >>,
     !.foodRespawnTimer = nextFoodRespawnDelay(delayRnd)]

\* Faulty variant of PassBegun: the step is not added to elapsedSeconds.
PassBegunNotCounting(st, settings, delta, nestPosition, spawn) ==
  [st EXCEPT
     !.homePheromones = evaporatePheromones(@, settings.evaporationRate, delta),
     !.foodPheromones = evaporatePheromones(@, settings.evaporationRate, delta),
     !.nestSignals = evaporatePheromones(@, NEST_SIGNAL_DECAY_RATE, delta),
     !.ants = updateAntPopulation(@, settings.antCount, nestPosition, spawn)]

\* updateSimulation, lines 397-407: the state when the agent loop begins.
PassBegun(st, settings, delta, nestPosition, spawn) ==
  [st EXCEPT
     !.stats.elapsedSeconds = @ + delta,
     !.homePheromones = evaporatePheromones(@, settings.evaporationRate, delta),
     !.foodPheromones = evaporatePheromones(@, settings.evaporationRate, delta),
     !.nestSignals = evaporatePheromones(@, NEST_SIGNAL_DECAY_RATE, delta),
     !.ants = updateAntPopulation(@, settings.antCount, nestPosition, spawn)]

\* updateSimulation, lines 411-413: the state with what updateAnt returned for
\* ant i.
AntStored(st, i, r) ==
  [st EXCEPT !.ants[i] = r.ant,
             !.homePheromones = r.home,
             !.foodPheromones = r.food,
             !.nestSignals = r.signals,
             !.foodSources = r.foodSources,
             !.stats.deliveredFood = r.deliveredFood]

\* updateSimulation, lines 411-413: the agent loop from ant i on.
RECURSIVE AntsUpdated(_, _, _, _, _, _)
AntsUpdated(st, settings, delta, nestPosition, rnd, i) ==
  IF i > Len(st.ants) THEN st
  ELSE AntsUpdated(
         AntStored(st, i,
           updateAnt(st.ants[i],
                     [home |-> st.homePheromones, food |-> st.foodPheromones,
                      signals |-> st.nestSignals, foodSources |-> st.foodSources,
                      deliveredFood |-> st.stats.deliveredFood],
                     settings, delta, nestPosition, rnd)),
         settings, delta, nestPosition, rnd, i + 1)

\* updateSimulation, lines 416-417, given the sources handleFoodDepletion kept
\* and what updateFoodRespawn returned.
PassEnded(st, kept, respawn, delta) ==
  [st EXCEPT !.foodSources = respawn.foodSources,
             !.foodRespawnTimer = respawn.foodRespawnTimer,
             !.foodPheromones = reinforceFoodSources(@, kept, delta)]

\* updateSimulation, lines 415-417, given the sources handleFoodDepletion kept.
FoodUpdated(st, kept, delta, nestPosition, autoFood, form, respawnRnd, nextId) ==
  PassEnded(st, kept,
            updateFoodRespawn(kept, st.foodRespawnTimer, autoFood, delta, nestPosition, form,
                              respawnRnd, nextId),
            delta)

\* updateSimulation, lines 415-417.
FoodLifecycle(st, settings, delta, nestPosition, autoFood, form, respawnRnd, nextId) ==
  FoodUpdated(st, handleFoodDepletion(st.foodSources, settings, delta), delta, nestPosition,
              autoFood, form, respawnRnd, nextId)

\* updateSimulation: one update pass.  draws holds the Math.random() draws of
\* the pass: spawn (the resize), ant (every updateAnt call) and respawn.
updateSimulation(st, settings, delta, autoFood, form, draws, nextId) ==
  FoodLifecycle(
    AntsUpdated(PassBegun(st, settings, delta, getWorldCenter, draws.spawn),
                settings, delta, getWorldCenter, draws.ant, 1),
    settings, delta, getWorldCenter, autoFood, form, draws.respawn, nextId)

\* Faulty variant of the while loop: an if, which runs one pass at most.
WhileStepDueOnce(st, acc, passes, settings, autoFood, form, draws, nextId) ==
  IF acc >= SIMULATION_STEP
  THEN [state |-> updateSimulation(st, settings, SIMULATION_STEP, autoFood, form, draws, nextId),
        accumulator |-> acc - SIMULATION_STEP, passes |-> passes + 1]
  ELSE [state |-> st, accumulator |-> acc, passes |-> passes]

\* tick, lines 382-385: the while loop.  The result holds the state, the
\* accumulator and the number of passes run.
RECURSIVE WhileStepDue(_, _, _, _, _, _, _, _)
WhileStepDue(st, acc, passes, settings, autoFood, form, draws, nextId) ==
  IF acc >= SIMULATION_STEP
  THEN WhileStepDue(updateSimulation(st, settings, SIMULATION_STEP, autoFood, form, draws, nextId),
                    acc - SIMULATION_STEP, passes + 1, settings, autoFood, form, draws,
                    nextId + 3)
  ELSE [state |-> st, accumulator |-> acc, passes |-> passes]

(* ----------------------------- state ----------------------------------- *)
VARIABLES
  ants,              \* state.ants
  foodSources,       \* state.foodSources
  homePheromones,    \* state.homePheromones
  foodPheromones,    \* state.foodPheromones
  nestSignals,       \* state.nestSignals
  stats,             \* state.stats
  foodRespawnTimer,  \* state.foodRespawnTimer
  settings,          \* activeSettings
  foodForm,          \* foodControls.value
  autoFoodEnabled,   \* autoFoodEnabled()
  accumulator,       \* accumulator
  pc,                \* where tick is: "frame" (between frames), "pass" (top of
                     \* the while loop, a step is due), "ants" (the agent loop)
  cursor,            \* index of the next ant of the agent loop
  nextFoodId,        \* ids handed out by createFoodSource so far
  passesRun,         \* number of update passes run
  userActions,       \* number of user commands (or direct calls) issued
  did,               \* what the last step did (history)
  passLog,           \* trail deposits of the ants of the current pass (history)
  frames,            \* two frame schedules run side by side: the wall-clock time
                     \* covered, the accumulator, the passes run and the number
                     \* of frames of each, and whether a frame was clamped
  status,            \* status(): "idle", "running" or "paused"
  simulation,        \* "null", or "state": the SimulationState held in the
                     \* state variables above
  initialFoodSources,\* initialFoodSources, the food placed while idle
  statsSignal,       \* stats(), the published statistics
  lastTimestamp,     \* lastTimestamp: << >> for null, or <<age>>, age being the
                     \* wall-clock time in ms that has passed since the recorded
                     \* timestamp (0 when a tick has just recorded it)
  animationHandle,   \* animationHandle: "null" or "pending" (a frame callback
                     \* is requested)
  pendingFrames,     \* the number of frame callbacks the browser holds: those
                     \* requested and neither run nor cancelled
  activePlacement,   \* activePlacement()
  controller,        \* AntSimulation.controller: "null" or "ready"
  canvas             \* the Canvas component: its world input, ctx, controller,
                     \* the ready events emitted and the error setup raised

simVars == <<ants, foodSources, homePheromones, foodPheromones, nestSignals, stats,
             foodRespawnTimer>>
vars == <<ants, foodSources, homePheromones, foodPheromones, nestSignals, stats,
          foodRespawnTimer, settings, foodForm, autoFoodEnabled, accumulator, pc, cursor,
          nextFoodId, passesRun, userActions, did, passLog, frames, status, simulation,
          initialFoodSources, statsSignal, lastTimestamp, animationHandle, pendingFrames,
          activePlacement, controller, canvas>>
\* The lifecycle of the component and its canvas.
lifeVars == <<status, simulation, initialFoodSources, statsSignal, lastTimestamp,
              animationHandle, pendingFrames, activePlacement, controller, canvas>>
\* The same without the published statistics.
lifeVarsButStats == <<status, simulation, initialFoodSources, lastTimestamp, animationHandle,
                      pendingFrames, activePlacement, controller, canvas>>

(* ----------------------------- bounds and inputs ----------------------- *)
MaxPasses == 2
MaxUserActions == 1
AntCounts == {0, 2}

\* The Math.random() draws of one updateAnt call, in thousandths: the heading
\* jitter, the stall deflection, the reversal at a delivery and the
\* <<bias, jitter>> draws of the six re-bias attempts.
AntDraws ==
  {[jitter |-> 0, deflect |-> 0, outbound |-> 999, edge |-> [k \in 1..6 |-> <<0, 500>>]],
   [jitter |-> 999, deflect |-> 999, outbound |-> 0, edge |-> [k \in 1..6 |-> <<999, 0>>]]}
\* The <<base, spread>> draws of the ants a resize creates.
SpawnDraws == {<<<<0, 500>>, <<500, 999>>>>, <<<<500, 999>>, <<250, 0>>>>}
\* The draws of a respawn: the number of sources, the next delay and the
\* candidate positions (well separated candidates, or one inside the nest
\* exclusion zone followed by two that collide).
RespawnDraws ==
  {[count |-> 0, delay |-> 0,
    picks |-> <<[x |-> 2000, y |-> 2000], [x |-> 2400, y |-> 2000], [x |-> 9000, y |-> 6000]>>],
   [count |-> 999, delay |-> 999,
    picks |-> <<[x |-> 2000, y |-> 2000], [x |-> 2400, y |-> 2000], [x |-> 9000, y |-> 6000]>>],
   [count |-> 999, delay |-> 0,
    picks |-> <<[x |-> 6500, y |-> 4000], [x |-> 2000, y |-> 2000], [x |-> 2000, y |-> 2000]>>]}

Pos(x, y) == [x |-> x, y |-> y]
NestPosition == getWorldCenter

\* createSettingsSnapshot: the controls' defaults.
DefaultSettings ==
  [antCount |-> 2, antSpeed |-> 7000, pheromoneInfluence |-> 900, randomness |-> 700,
   evaporationRate |-> 150, depositionRate |-> 550, timeScale |-> 3000,
   allowFoodDepletion |-> FALSE, depletionMultiplier |-> 1000]

\* foodControls' defaults.
DefaultFoodForm ==
  [capacity |-> FOOD_CAPACITY_DEFAULT, radius |-> FOOD_RADIUS_DEFAULT,
   depletionRate |-> FOOD_DEPLETION_DEFAULT]

NoDid ==
  [op |-> "none", index |-> 0, depositCount |-> 0, depositInto |-> "home", depositCell |-> -1,
   depositValue |-> 0, pickup |-> 0, delivered |-> FALSE, forcedBefore |-> FALSE, attempts |-> 0,
   capacityBefore |-> 0, removed |-> {}, position |-> [x |-> 0, y |-> 0],
   respawn |-> [count |-> 0, delay |-> 0, picks |-> << >>]]

NoFrames ==
  [wallA |-> 0, wallB |-> 0, accA |-> 0, accB |-> 0, passesA |-> 0, passesB |-> 0,
   countA |-> 0, countB |-> 0, clamped |-> FALSE]

\* The canvas after a setup that succeeded: ngAfterViewInit has run on a
\* valid world and the controller has been emitted once.
ReadyCanvas ==
  [world |-> [width |-> WORLD_WIDTH, height |-> WORLD_HEIGHT], ctx |-> "context",
   controller |-> "ready", readyEmitted |-> 1, raised |-> "none"]

\* The lifecycle in the middle of a run: started, the canvas ready, a frame
\* requested, and the statistics published by the last pass.
RunningLifecycle ==
  /\ status = "running"
  /\ simulation = "state"
  /\ initialFoodSources = << >>
  /\ statsSignal = stats
  /\ lastTimestamp = <<0>>
  /\ animationHandle = "pending"
  /\ pendingFrames = 1
  /\ activePlacement = "click"
  /\ controller = "ready"
  /\ canvas = ReadyCanvas

\* An ant in the middle of a run.  pathIntegration is the displacement since
\* the last reset at the nest, which updateAnt keeps equal to position - nest.
MidRunAnt(id, position, direction, carrying, carryingTime, forced, stalledTime) ==
  [id |-> id, position |-> position, direction |-> direction, carryingFood |-> carrying,
   depositAccumulator |-> 0, stalledTime |-> stalledTime, carryingTime |-> carryingTime,
   forceReturn |-> forced, nestSignalTimer |-> 0, nestSignalAccumulator |-> 0,
   pathIntegration |-> [x |-> position.x - NestPosition.x, y |-> position.y - NestPosition.y]]

MidRunSource(id, position, capacity, maxCapacity, depletionRate) ==
  [id |-> id, position |-> position, radius |-> LenOne, capacity |-> capacity,
   maxCapacity |-> maxCapacity, depletionRate |-> depletionRate]

NoTrail == createPheromoneGrid

\* The runs the model starts from.  "fresh" is startSimulation's state with a
\* source placed beside the nest; the others are states in the middle of a run.
Scenarios ==
  { \* two new ants at the nest and a source placed beside it
    [name |-> "fresh",
     ants |-> <<createAnt(0, NestPosition, 524, 0, 500), createAnt(1, NestPosition, 524, 500, 500)>>,
     foodSources |-> <<MidRunSource(1, Pos(6050, 4000), 10 * CapOne, 10 * CapOne, 50)>>,
     food |-> NoTrail,
     settings |-> DefaultSettings, autoFood |-> FALSE, timer |-> 18000],
    \* an ant that has carried food for 34.95 s and is two passes from the nest
    [name |-> "carry",
     ants |-> <<MidRunAnt(0, Pos(5545, 4000), 0, TRUE, 34950, FALSE, 0)>>,
     foodSources |-> << >>,
     food |-> NoTrail,
     settings |-> [DefaultSettings EXCEPT !.antCount = 1], autoFood |-> FALSE, timer |-> 18000],
    \* a carrying ant about to enter the nest from the west, with food trail
    \* left beside the nest by the carriers before it
    [name |-> "deliver",
     ants |-> <<MidRunAnt(0, Pos(5570, 4000), 0, TRUE, 2000, FALSE, 0)>>,
     foodSources |-> << >>,
     food |-> (sampleGridCell(Pos(5910, 3740)) :> PheroOne \div 2)
              @@ (sampleGridCell(Pos(5910, 4260)) :> PheroOne \div 2),
     settings |-> [DefaultSettings EXCEPT !.antCount = 1], autoFood |-> FALSE, timer |-> 18000],
    \* passive depletion near the removal threshold, and a forager, 5.5 s after
    \* its last delivery, beside a source that depletion has left with a
    \* fractional capacity
    [name |-> "deplete",
     ants |-> <<[MidRunAnt(0, Pos(3000, 2000), 0, FALSE, 0, FALSE, 0)
                   EXCEPT !.nestSignalTimer = 500, !.nestSignalAccumulator = 100]>>,
     foodSources |-> <<MidRunSource(1, Pos(3050, 2000), CapOne \div 2, 10 * CapOne, 500),
                      MidRunSource(2, Pos(9000, 6000), 2250, 101000, 500),
                      MidRunSource(3, Pos(9000, 2000), 3 * CapOne, 10 * CapOne, 500)>>,
     food |-> NoTrail,
     settings |-> [DefaultSettings EXCEPT !.antCount = 1, !.allowFoodDepletion = TRUE,
                                          !.depletionMultiplier = 5000],
     autoFood |-> FALSE, timer |-> 18000],
    \* an ant that was clamped into the far corner of the world, heading outward
    [name |-> "edge",
     ants |-> <<MidRunAnt(0, Pos(WORLD_WIDTH, WORLD_HEIGHT), 45, FALSE, 0, FALSE, 400)>>,
     foodSources |-> << >>,
     food |-> NoTrail,
     settings |-> [DefaultSettings EXCEPT !.antCount = 1], autoFood |-> FALSE, timer |-> 18000],
    \* an ant at the world edge that cannot move: the speed control is at zero
    [name |-> "stall",
     ants |-> <<MidRunAnt(0, Pos(10, 4000), 180, FALSE, 0, FALSE, 400)>>,
     foodSources |-> << >>,
     food |-> NoTrail,
     settings |-> [DefaultSettings EXCEPT !.antCount = 1, !.antSpeed = 0],
     autoFood |-> FALSE, timer |-> 18000],
    \* no ants, auto-food on and the respawn countdown about to elapse
    [name |-> "respawn",
     ants |-> << >>,
     foodSources |-> << >>,
     food |-> NoTrail,
     settings |-> [DefaultSettings EXCEPT !.antCount = 0], autoFood |-> TRUE, timer |-> 100] }

InitRun ==
  \E sc \in Scenarios :
    /\ ants = sc.ants
    /\ foodSources = sc.foodSources
    /\ homePheromones = createPheromoneGrid
    /\ foodPheromones = sc.food
    /\ nestSignals = createPheromoneGrid
    /\ stats = [deliveredFood |-> 0, elapsedSeconds |-> 0]
    /\ foodRespawnTimer = sc.timer
    /\ settings = sc.settings
    /\ foodForm = [DefaultFoodForm EXCEPT !.capacity = 10 * CapOne, !.radius = LenOne]
    /\ autoFoodEnabled = sc.autoFood
    /\ accumulator = 0
    /\ pc = "frame"
    /\ cursor = 0
    /\ nextFoodId = 10
    /\ passesRun = 0
    /\ userActions = 0
    /\ did = NoDid
    /\ passLog = {}
    /\ frames = NoFrames
    /\ RunningLifecycle

(* ----------------------------- the frame loop -------------------------- *)
FrameDeltas == {17, 34}

\* tick, lines 375-382: add the frame's scaled time and enter the while loop.
Tick(rawDelta) ==
  /\ pc = "frame"
  /\ passesRun + (Accumulate(accumulator, rawDelta, settings.timeScale) \div SIMULATION_STEP)
       <= MaxPasses
  /\ accumulator' = Accumulate(accumulator, rawDelta, settings.timeScale)
  /\ pc' = IF accumulator' >= SIMULATION_STEP THEN "pass" ELSE "frame"
  /\ did' = [NoDid EXCEPT !.op = "tick"]
  /\ UNCHANGED <<simVars, settings, foodForm, autoFoodEnabled, cursor, nextFoodId, passesRun,
                 userActions, passLog, frames>>
  /\ UNCHANGED lifeVars

\* Faulty variant of BeginPass: the step is not added to elapsedSeconds.
BeginPassNotCounting ==
  /\ pc = "pass"
  /\ \E draws \in (IF Len(ants) < settings.antCount THEN SpawnDraws
                     ELSE {<<<<0, 0>>, <<0, 0>>>>}) :
       ants' = updateAntPopulation(ants, settings.antCount, NestPosition, draws)
  /\ stats' = stats
  /\ homePheromones' = evaporatePheromones(homePheromones, settings.evaporationRate, SIMULATION_STEP)
  /\ foodPheromones' = evaporatePheromones(foodPheromones, settings.evaporationRate, SIMULATION_STEP)
  /\ nestSignals' = evaporatePheromones(nestSignals, NEST_SIGNAL_DECAY_RATE, SIMULATION_STEP)
  /\ pc' = "ants"
  /\ cursor' = 1
  /\ passLog' = {}
  /\ did' = [NoDid EXCEPT !.op = "begin"]
  /\ UNCHANGED <<foodSources, foodRespawnTimer, settings, foodForm, autoFoodEnabled, accumulator,
                 nextFoodId, passesRun, userActions, frames>>
  /\ statsSignal' = stats'
  /\ UNCHANGED lifeVarsButStats

\* updateSimulation, lines 397-409: the stats, the evaporation of the three
\* grids and the population resize.
BeginPass ==
  /\ pc = "pass"
  /\ \E draws \in (IF Len(ants) < settings.antCount THEN SpawnDraws
                     ELSE {<<<<0, 0>>, <<0, 0>>>>}) :
       ants' = updateAntPopulation(ants, settings.antCount, NestPosition, draws)
  /\ stats' = [stats EXCEPT !.elapsedSeconds = stats.elapsedSeconds + SIMULATION_STEP]
  /\ homePheromones' = evaporatePheromones(homePheromones, settings.evaporationRate, SIMULATION_STEP)
  /\ foodPheromones' = evaporatePheromones(foodPheromones, settings.evaporationRate, SIMULATION_STEP)
  /\ nestSignals' = evaporatePheromones(nestSignals, NEST_SIGNAL_DECAY_RATE, SIMULATION_STEP)
  /\ pc' = "ants"
  /\ cursor' = 1
  /\ passLog' = {}
  /\ did' = [NoDid EXCEPT !.op = "begin"]
  /\ UNCHANGED <<foodSources, foodRespawnTimer, settings, foodForm, autoFoodEnabled, accumulator,
                 nextFoodId, passesRun, userActions, frames>>
  /\ statsSignal' = stats'
  /\ UNCHANGED lifeVarsButStats

\* updateSimulation, lines 411-413: what updateAnt did to the state, r being
\* the result of the update of the ant at the cursor.
StoreAnt(r) ==
  /\ ants' = [ants EXCEPT ![cursor] = r.ant]
  /\ homePheromones' = r.home
  /\ foodPheromones' = r.food
  /\ nestSignals' = r.signals
  /\ foodSources' = r.foodSources
  /\ stats' = [stats EXCEPT !.deliveredFood = r.deliveredFood]
  /\ did' = [NoDid EXCEPT !.op = "ant", !.index = cursor,
                          !.depositCount = r.did.depositCount,
                          !.depositInto = r.did.depositInto,
                          !.depositCell = r.did.depositCell,
                          !.depositValue = r.did.depositValue,
                          !.pickup = r.did.pickup,
                          !.delivered = r.did.delivered,
                          !.forcedBefore = r.did.forcedBefore,
                          !.attempts = r.did.attempts,
                          !.capacityBefore =
                             IF r.did.pickup > 0
                             THEN foodSources[r.did.pickup].capacity ELSE 0]
  /\ passLog' = IF r.did.depositCount > 0 /\ r.did.depositCell >= 0
                THEN passLog \cup {[index |-> cursor, into |-> r.did.depositInto,
                                    cell |-> r.did.depositCell,
                                    value |-> r.did.depositValue]}
                ELSE passLog

\* updateSimulation, lines 411-413: one iteration of the agent loop.
AntStep ==
  /\ pc = "ants"
  /\ cursor <= Len(ants)
  /\ \E rnd \in AntDraws :
       StoreAnt(updateAnt(ants[cursor],
                          [home |-> homePheromones, food |-> foodPheromones,
                           signals |-> nestSignals, foodSources |-> foodSources,
                           deliveredFood |-> stats.deliveredFood],
                          settings, SIMULATION_STEP, NestPosition, rnd))
  /\ cursor' = cursor + 1
  /\ UNCHANGED <<foodRespawnTimer, settings, foodForm, autoFoodEnabled, accumulator, pc,
                 nextFoodId, passesRun, userActions, frames>>
  /\ statsSignal' = IF stats'.deliveredFood # stats.deliveredFood THEN stats' ELSE statsSignal
  /\ UNCHANGED lifeVarsButStats

\* updateSimulation, lines 415-417, and tick, lines 384-388: depletion,
\* reinforcement and respawn end the pass; the step leaves the accumulator and
\* the while loop runs again or the frame ends.
EndPass ==
  /\ pc = "ants"
  /\ cursor > Len(ants)
  /\ LET kept == handleFoodDepletion(foodSources, settings, SIMULATION_STEP)
         spawning == /\ autoFoodEnabled
                     /\ Len(kept) < MAX_FOOD_SOURCES
                     /\ foodRespawnTimer - SIMULATION_STEP <= 0
     IN \E rnd \in (IF spawning THEN RespawnDraws ELSE {r \in RespawnDraws : r.count = 0}) :
          LET respawn == updateFoodRespawn(kept, foodRespawnTimer, autoFoodEnabled,
                           SIMULATION_STEP, NestPosition, foodForm, rnd, nextFoodId)
          IN /\ foodSources' = respawn.foodSources
             /\ foodRespawnTimer' = respawn.foodRespawnTimer
             /\ nextFoodId' = nextFoodId + 3
             /\ did' = [NoDid EXCEPT !.op = "end",
                          !.removed =
                             {[id |-> foodSources[k].id,
                               capacity |-> DepletedCapacity(foodSources[k], settings,
                                                             SIMULATION_STEP)] :
                                k \in {j \in 1..Len(foodSources) :
                                         \A i \in 1..Len(kept) : kept[i].id # foodSources[j].id}}]
  /\ foodPheromones' =
       reinforceFoodSources(foodPheromones,
                            handleFoodDepletion(foodSources, settings, SIMULATION_STEP),
                            SIMULATION_STEP)
  /\ accumulator' = accumulator - SIMULATION_STEP
  /\ pc' = IF accumulator' >= SIMULATION_STEP THEN "pass" ELSE "frame"
  /\ passesRun' = passesRun + 1
  /\ passLog' = {}
  /\ UNCHANGED <<ants, homePheromones, nestSignals, stats, settings, foodForm, autoFoodEnabled,
                 cursor, userActions, frames>>
  /\ UNCHANGED lifeVars

(* ----------------------------- user commands --------------------------- *)
\* The settings the user can switch to between frames (controls.valueChanges).
SettingsChanges(current) ==
  {[current EXCEPT !.antCount = n] : n \in AntCounts}
  \cup {[current EXCEPT !.depletionMultiplier = 1000, !.allowFoodDepletion = TRUE]}

ChangeSettings ==
  /\ pc = "frame"
  /\ userActions < MaxUserActions
  /\ \E next \in SettingsChanges(settings) \ {settings} : settings' = next
  /\ userActions' = userActions + 1
  /\ did' = [NoDid EXCEPT !.op = "user"]
  /\ UNCHANGED <<simVars, foodForm, autoFoodEnabled, accumulator, pc, cursor, nextFoodId,
                 passesRun, passLog, frames>>
  /\ UNCHANGED lifeVars

\* handlePointerDown in click mode while the simulation exists.
PlaceFood ==
  /\ pc = "frame"
  /\ userActions < MaxUserActions
  /\ \E position \in {Pos(6250, 4100)} :
       foodSources' = Append(foodSources, createFoodSource(nextFoodId, position, foodForm))
  /\ nextFoodId' = nextFoodId + 1
  /\ userActions' = userActions + 1
  /\ did' = [NoDid EXCEPT !.op = "user"]
  /\ UNCHANGED <<ants, homePheromones, foodPheromones, nestSignals, stats, foodRespawnTimer,
                 settings, foodForm, autoFoodEnabled, accumulator, pc, cursor, passesRun,
                 passLog, frames>>
  /\ UNCHANGED lifeVars

\* toggleAutoFood.
ToggleAutoFood ==
  /\ pc = "frame"
  /\ userActions < MaxUserActions
  /\ autoFoodEnabled' = ~autoFoodEnabled
  /\ \E delay \in {0} :
       foodRespawnTimer' = IF autoFoodEnabled' THEN nextFoodRespawnDelay(delay)
                           ELSE foodRespawnTimer
  /\ userActions' = userActions + 1
  /\ did' = [NoDid EXCEPT !.op = "user"]
  /\ UNCHANGED <<ants, foodSources, homePheromones, foodPheromones, nestSignals, stats,
                 settings, foodForm, accumulator, pc, cursor, nextFoodId, passesRun, passLog,
                 frames>>
  /\ UNCHANGED lifeVars

NextRun ==
  \/ \E rawDelta \in FrameDeltas : Tick(rawDelta)
  \/ BeginPass
  \/ AntStep
  \/ EndPass
  \/ ChangeSettings
  \/ PlaceFood
  \/ ToggleAutoFood

SpecRun == InitRun /\ [][NextRun]_vars


(* ----------------------------- the grid calls -------------------------- *)
\* Arbitrary sequences of depositPheromone, markNestSignal and
\* evaporatePheromones calls on the three grids.
MaxGridCalls == 4
GridPositions == {Pos(6050, 4000), Pos(WORLD_WIDTH, 4000), Pos(-50, 4000), Pos(6050, WORLD_HEIGHT + 30)}
DepositAmounts == {0, 45000, 55000, 160000}
EvaporationRates == {0, 150, 280, 25000}
EvaporationDeltas == {0, 50}

InitGrid ==
  /\ ants = << >>
  /\ foodSources = << >>
  /\ homePheromones = createPheromoneGrid
  /\ foodPheromones = createPheromoneGrid
  /\ nestSignals = createPheromoneGrid
  /\ stats = [deliveredFood |-> 0, elapsedSeconds |-> 0]
  /\ foodRespawnTimer = FOOD_RESPAWN_MIN_DELAY
  /\ settings = DefaultSettings
  /\ foodForm = DefaultFoodForm
  /\ autoFoodEnabled = FALSE
  /\ accumulator = 0
  /\ pc = "frame"
  /\ cursor = 0
  /\ nextFoodId = 0
  /\ passesRun = 0
  /\ userActions = 0
  /\ did = NoDid
  /\ passLog = {}
  /\ frames = NoFrames
  /\ RunningLifecycle

DepositCall ==
  /\ userActions < MaxGridCalls
  /\ \E name \in {"home", "food"}, position \in GridPositions, amount \in DepositAmounts :
       /\ homePheromones' = IF name = "home"
                            THEN depositPheromone(homePheromones, position, amount)
                            ELSE homePheromones
       /\ foodPheromones' = IF name = "food"
                            THEN depositPheromone(foodPheromones, position, amount)
                            ELSE foodPheromones
       /\ did' = [NoDid EXCEPT !.op = "deposit", !.position = position]
  /\ userActions' = userActions + 1
  /\ UNCHANGED <<ants, foodSources, nestSignals, stats, foodRespawnTimer, settings, foodForm,
                 autoFoodEnabled, accumulator, pc, cursor, nextFoodId, passesRun, passLog,
                 frames>>
  /\ UNCHANGED lifeVars

MarkCall ==
  /\ userActions < MaxGridCalls
  /\ \E position \in GridPositions, amount \in DepositAmounts :
       /\ nestSignals' = markNestSignal(nestSignals, position, amount)
       /\ did' = [NoDid EXCEPT !.op = "mark", !.position = position]
  /\ userActions' = userActions + 1
  /\ UNCHANGED <<ants, foodSources, homePheromones, foodPheromones, stats, foodRespawnTimer,
                 settings, foodForm, autoFoodEnabled, accumulator, pc, cursor, nextFoodId,
                 passesRun, passLog, frames>>
  /\ UNCHANGED lifeVars

EvaporateCall ==
  /\ userActions < MaxGridCalls
  /\ \E name \in {"home", "food", "signals"}, rate \in EvaporationRates,
        delta \in EvaporationDeltas :
       /\ homePheromones' = IF name = "home"
                            THEN evaporatePheromones(homePheromones, rate, delta)
                            ELSE homePheromones
       /\ foodPheromones' = IF name = "food"
                            THEN evaporatePheromones(foodPheromones, rate, delta)
                            ELSE foodPheromones
       /\ nestSignals' = IF name = "signals"
                         THEN evaporatePheromones(nestSignals, rate, delta)
                         ELSE nestSignals
  /\ userActions' = userActions + 1
  /\ did' = [NoDid EXCEPT !.op = "evaporate"]
  /\ UNCHANGED <<ants, foodSources, stats, foodRespawnTimer, settings, foodForm,
                 autoFoodEnabled, accumulator, pc, cursor, nextFoodId, passesRun, passLog,
                 frames>>
  /\ UNCHANGED lifeVars

NextGrid ==
  \/ DepositCall
  \/ MarkCall
  \/ EvaporateCall

SpecGrid == InitGrid /\ [][NextGrid]_vars

(* ----------------------------- evaporation alone ----------------------- *)
\* evaporatePheromones called again and again on one grid with a fixed
\* rate, no deposit in between.  The factor carries four decimal digits
\* here as the double carries 53 bits: rate * delta below the last digit
\* leaves the factor at exactly 1.
StartValues == {150, 55000, PheroOne}
FixedRates == {1, 150, 280, 25000}
StartCells == {sampleGridCell(Pos(6050, 4000)), sampleGridCell(Pos(6150, 4000))}

InitEvap ==
  /\ ants = << >>
  /\ foodSources = << >>
  /\ homePheromones \in [StartCells -> StartValues]
  /\ foodPheromones = createPheromoneGrid
  /\ nestSignals = createPheromoneGrid
  /\ stats = [deliveredFood |-> 0, elapsedSeconds |-> 0]
  /\ foodRespawnTimer = FOOD_RESPAWN_MIN_DELAY
  /\ \E rate \in FixedRates : settings = [DefaultSettings EXCEPT !.evaporationRate = rate]
  /\ foodForm = DefaultFoodForm
  /\ autoFoodEnabled = FALSE
  /\ accumulator = 0
  /\ pc = "frame"
  /\ cursor = 0
  /\ nextFoodId = 0
  /\ passesRun = 0
  /\ userActions = 0
  /\ did = NoDid
  /\ passLog = {}
  /\ frames = NoFrames
  /\ RunningLifecycle

\* One evaporatePheromones(grid, rate, delta) call; did.index is its delta.
EvaporateStep(delta) ==
  /\ homePheromones' = evaporatePheromones(homePheromones, settings.evaporationRate, delta)
  /\ did' = [NoDid EXCEPT !.op = "evaporate", !.index = delta]
  /\ UNCHANGED <<ants, foodSources, foodPheromones, nestSignals, stats, foodRespawnTimer,
                 settings, foodForm, autoFoodEnabled, accumulator, pc, cursor, nextFoodId,
                 passesRun, userActions, passLog, frames>>
  /\ UNCHANGED lifeVars

NextEvap == \E delta \in EvaporationDeltas : EvaporateStep(delta)

\* Calls with a positive delta keep coming.
SpecEvap == InitEvap /\ [][NextEvap]_vars /\ WF_vars(EvaporateStep(SIMULATION_STEP))

(* ----------------------------- the resize calls ------------------------ *)
\* updateAntPopulation called with arbitrary targets on the populations the
\* earlier calls left.
MaxAnts == 4
MaxResizes == 3
ResizeDraws == {[k \in 1..(MaxAnts + 1) |-> <<0, 500>>],
                [k \in 1..(MaxAnts + 1) |-> <<(250 * k) % Milli, 999>>]}

InitResize ==
  /\ ants = << >>
  /\ foodSources = << >>
  /\ homePheromones = createPheromoneGrid
  /\ foodPheromones = createPheromoneGrid
  /\ nestSignals = createPheromoneGrid
  /\ stats = [deliveredFood |-> 0, elapsedSeconds |-> 0]
  /\ foodRespawnTimer = FOOD_RESPAWN_MIN_DELAY
  /\ settings = [DefaultSettings EXCEPT !.antCount = 0]
  /\ foodForm = DefaultFoodForm
  /\ autoFoodEnabled = FALSE
  /\ accumulator = 0
  /\ pc = "frame"
  /\ cursor = 0
  /\ nextFoodId = 0
  /\ passesRun = 0
  /\ userActions = 0
  /\ did = NoDid
  /\ passLog = {}
  /\ frames = NoFrames
  /\ RunningLifecycle

\* did.index is the population before the call.
Resize(targetCount) ==
  /\ userActions < MaxResizes
  /\ \E draws \in ResizeDraws :
       ants' = updateAntPopulation(ants, targetCount, NestPosition, draws)
  /\ settings' = [settings EXCEPT !.antCount = targetCount]
  /\ userActions' = userActions + 1
  /\ did' = [NoDid EXCEPT !.op = "resize", !.index = Len(ants)]
  /\ UNCHANGED <<foodSources, homePheromones, foodPheromones, nestSignals, stats,
                 foodRespawnTimer, foodForm, autoFoodEnabled, accumulator, pc, cursor,
                 nextFoodId, passesRun, passLog, frames>>
  /\ UNCHANGED lifeVars

NextResize == \E targetCount \in 0..MaxAnts : Resize(targetCount)

SpecResize == InitResize /\ [][NextResize]_vars

(* ----------------------------- two frame schedules --------------------- *)
\* tick's clock on two schedules of frames, A and B, under one timeScale: each
\* frame adds its scaled and clamped time to the schedule's accumulator and
\* the while loop takes the due passes out of it.
MaxFrames == 3
ScheduleDeltas == {10, 20, 40, 80, 200}
TimeScales == {1000, 3000}

InitFrames ==
  /\ ants = << >>
  /\ foodSources = << >>
  /\ homePheromones = createPheromoneGrid
  /\ foodPheromones = createPheromoneGrid
  /\ nestSignals = createPheromoneGrid
  /\ stats = [deliveredFood |-> 0, elapsedSeconds |-> 0]
  /\ foodRespawnTimer = FOOD_RESPAWN_MIN_DELAY
  /\ \E timeScale \in TimeScales :
       settings = [DefaultSettings EXCEPT !.antCount = 0, !.timeScale = timeScale]
  /\ foodForm = DefaultFoodForm
  /\ autoFoodEnabled = FALSE
  /\ accumulator = 0
  /\ pc = "frame"
  /\ cursor = 0
  /\ nextFoodId = 0
  /\ passesRun = 0
  /\ userActions = 0
  /\ did = NoDid
  /\ passLog = {}
  /\ frames = NoFrames
  /\ RunningLifecycle

\* Whether the frame's scaled time exceeds MAX_FRAME_DELTA (line 379).
FrameClamped(rawDelta, timeScale) == FloorDiv(rawDelta * timeScale, Milli) > MAX_FRAME_DELTA

FrameA(rawDelta) ==
  /\ frames.countA < MaxFrames
  /\ LET filled == Accumulate(frames.accA, rawDelta, settings.timeScale)
     IN frames' = [frames EXCEPT !.wallA = @ + rawDelta,
                                 !.accA = RemainderAfter(filled),
                                 !.passesA = @ + PassesDue(filled),
                                 !.countA = @ + 1,
                                 !.clamped = @ \/ FrameClamped(rawDelta, settings.timeScale)]
  /\ did' = [NoDid EXCEPT !.op = "tick"]
  /\ UNCHANGED <<simVars, settings, foodForm, autoFoodEnabled, accumulator, pc, cursor,
                 nextFoodId, passesRun, userActions, passLog>>
  /\ UNCHANGED lifeVars

FrameB(rawDelta) ==
  /\ frames.countB < MaxFrames
  /\ LET filled == Accumulate(frames.accB, rawDelta, settings.timeScale)
     IN frames' = [frames EXCEPT !.wallB = @ + rawDelta,
                                 !.accB = RemainderAfter(filled),
                                 !.passesB = @ + PassesDue(filled),
                                 !.countB = @ + 1,
                                 !.clamped = @ \/ FrameClamped(rawDelta, settings.timeScale)]
  /\ did' = [NoDid EXCEPT !.op = "tick"]
  /\ UNCHANGED <<simVars, settings, foodForm, autoFoodEnabled, accumulator, pc, cursor,
                 nextFoodId, passesRun, userActions, passLog>>
  /\ UNCHANGED lifeVars

NextFrames ==
  \/ \E rawDelta \in ScheduleDeltas : FrameA(rawDelta)
  \/ \E rawDelta \in ScheduleDeltas : FrameB(rawDelta)

SpecFrames == InitFrames /\ [][NextFrames]_vars

(* ----------------------------- the lifecycle --------------------------- *)
\* The SimulationState held in the state variables.
CurrentState ==
  [ants |-> ants, foodSources |-> foodSources, homePheromones |-> homePheromones,
   foodPheromones |-> foodPheromones, nestSignals |-> nestSignals, stats |-> stats,
   foodRespawnTimer |-> foodRespawnTimer]

\* The state variables hold the fields of a SimulationState.
StateIs(st) ==
  /\ ants = st.ants
  /\ foodSources = st.foodSources
  /\ homePheromones = st.homePheromones
  /\ foodPheromones = st.foodPheromones
  /\ nestSignals = st.nestSignals
  /\ stats = st.stats
  /\ foodRespawnTimer = st.foodRespawnTimer

\* The state variables take the fields of a SimulationState.
StateBecomes(st) ==
  /\ ants' = st.ants
  /\ foodSources' = st.foodSources
  /\ homePheromones' = st.homePheromones
  /\ foodPheromones' = st.foodPheromones
  /\ nestSignals' = st.nestSignals
  /\ stats' = st.stats
  /\ foodRespawnTimer' = st.foodRespawnTimer

\* Bounds of the lifecycle runs: the commands issued and the passes run.
MaxCommands == 3
MaxLifePasses == 2

\* The draws of the passes of one frame.
FrameDraws ==
  {[spawn |-> <<<<0, 500>>, <<500, 999>>>>,
    ant |-> [jitter |-> 0, deflect |-> 0, outbound |-> 999, edge |-> [k \in 1..6 |-> <<0, 500>>]],
    respawn |-> [count |-> 0, delay |-> 0,
                 picks |-> <<[x |-> 2000, y |-> 2000], [x |-> 2400, y |-> 2000],
                             [x |-> 9000, y |-> 6000]>>]],
   [spawn |-> <<<<500, 999>>, <<250, 0>>>>,
    ant |-> [jitter |-> 999, deflect |-> 999, outbound |-> 0, edge |-> [k \in 1..6 |-> <<999, 0>>]],
    respawn |-> [count |-> 999, delay |-> 999,
                 picks |-> <<[x |-> 2000, y |-> 2000], [x |-> 2400, y |-> 2000],
                             [x |-> 9000, y |-> 6000]>>]]}

\* The component after construction and the canvas's setup: idle, no
\* simulation, nothing placed, the controller received.
InitLife ==
  /\ StateIs(NoState)
  /\ settings \in {DefaultSettings, [DefaultSettings EXCEPT !.antCount = 1]}
  /\ foodForm = [DefaultFoodForm EXCEPT !.capacity = 10 * CapOne, !.radius = LenOne]
  /\ autoFoodEnabled = TRUE
  /\ accumulator = 0
  /\ pc = "frame"
  /\ cursor = 0
  /\ nextFoodId = 0
  /\ passesRun = 0
  /\ userActions = 0
  /\ did = NoDid
  /\ passLog = {}
  /\ frames = NoFrames
  /\ status = "idle"
  /\ simulation = "null"
  /\ initialFoodSources = << >>
  /\ statsSignal = [deliveredFood |-> 0, elapsedSeconds |-> 0]
  /\ lastTimestamp = << >>
  /\ animationHandle = "null"
  /\ pendingFrames = 0
  /\ activePlacement = "click"
  /\ controller = "ready"
  /\ canvas = ReadyCanvas

\* Faulty variant of StartLoopFrames: the callback requested before is not
\* cancelled.
StartLoopFramesWithoutCancel == pendingFrames + 1

\* startLoop, lines 343-346: the callbacks the browser holds after
\* cancelAnimationFrame of the one animationHandle names, if any, and the new
\* requestAnimationFrame.
StartLoopFrames ==
  (IF animationHandle # "null" THEN pendingFrames - 1 ELSE pendingFrames) + 1

\* stopLoop, lines 350-353: the callbacks the browser holds after
\* cancelAnimationFrame of the one animationHandle names, if any.
StopLoopFrames ==
  IF animationHandle # "null" THEN pendingFrames - 1 ELSE pendingFrames

\* Faulty variant of Started: a restart takes the food sources of the live
\* state, as if the pre-placed sources had not been copied.
StartedWithLiveSources(state) ==
  /\ StateBecomes([state EXCEPT !.foodSources = IF simulation = "state" THEN foodSources
                                                ELSE initialFoodSources])
  /\ simulation' = "state"
  /\ status' = "running"
  /\ statsSignal' = [deliveredFood |-> 0, elapsedSeconds |-> 0]
  /\ accumulator' = 0
  /\ lastTimestamp' = << >>
  /\ animationHandle' = "pending"
  /\ pendingFrames' = StartLoopFrames

\* startSimulation, given the state createInitialState returned.
Started(state) ==
  /\ StateBecomes([state EXCEPT !.foodSources = initialFoodSources])
  /\ simulation' = "state"
  /\ status' = "running"
  /\ statsSignal' = [deliveredFood |-> 0, elapsedSeconds |-> 0]
  /\ accumulator' = 0
  /\ lastTimestamp' = << >>
  /\ animationHandle' = "pending"
  /\ pendingFrames' = StartLoopFrames

\* createPheromoneGrid: columns * rows, the length given to new Float32Array,
\* for the world the component and its canvas share.
GridLength(world) ==
  ((world.width + PHEROMONE_CELL_SIZE - 1) \div PHEROMONE_CELL_SIZE)
    * ((world.height + PHEROMONE_CELL_SIZE - 1) \div PHEROMONE_CELL_SIZE)

\* startSimulation.  The copies of the pre-placed sources have the fields of
\* the originals.  new Float32Array throws a RangeError on a negative
\* length, which ends the handler before it assigns anything but the
\* settings snapshot.
StartSimulation ==
  /\ userActions < MaxCommands
  /\ IF GridLength(canvas.world) < 0
     THEN /\ did' = [NoDid EXCEPT !.op = "startRaised"]
          /\ UNCHANGED <<simVars, simulation, status, statsSignal, accumulator, lastTimestamp,
                         animationHandle, pendingFrames>>
     ELSE /\ \E draws \in SpawnDraws, delayRnd \in {0, 999} :
               Started(createInitialState(settings, draws, delayRnd))
          /\ did' = [NoDid EXCEPT !.op = "start"]
  /\ userActions' = userActions + 1
  /\ UNCHANGED <<settings, foodForm, autoFoodEnabled, pc, cursor, nextFoodId, passesRun, passLog,
                 frames, initialFoodSources, activePlacement, controller, canvas>>

\* Faulty variant of PauseSimulation: the accumulator is cleared with the
\* timestamp.
PauseClearingAccumulator ==
  /\ userActions < MaxCommands
  /\ status = "running"
  /\ status' = "paused"
  /\ animationHandle' = "null"
  /\ pendingFrames' = StopLoopFrames
  /\ lastTimestamp' = << >>
  /\ accumulator' = 0
  /\ userActions' = userActions + 1
  /\ did' = [NoDid EXCEPT !.op = "pause"]
  /\ UNCHANGED <<simVars, settings, foodForm, autoFoodEnabled, pc, cursor, nextFoodId,
                 passesRun, passLog, frames, simulation, initialFoodSources, statsSignal,
                 activePlacement, controller, canvas>>

\* Faulty variant of PauseSimulation: the status is not tested.
PauseWhateverStatus ==
  /\ userActions < MaxCommands
  /\ status' = "paused"
  /\ animationHandle' = "null"
  /\ pendingFrames' = StopLoopFrames
  /\ lastTimestamp' = << >>
  /\ userActions' = userActions + 1
  /\ did' = [NoDid EXCEPT !.op = "pause"]
  /\ UNCHANGED <<simVars, settings, foodForm, autoFoodEnabled, accumulator, pc, cursor,
                 nextFoodId, passesRun, passLog, frames, simulation, initialFoodSources,
                 statsSignal, activePlacement, controller, canvas>>

\* Faulty variant of PauseSimulation: lastTimestamp is not cleared.
PauseKeepingTimestamp ==
  /\ userActions < MaxCommands
  /\ status = "running"
  /\ status' = "paused"
  /\ animationHandle' = "null"
  /\ pendingFrames' = StopLoopFrames
  /\ userActions' = userActions + 1
  /\ did' = [NoDid EXCEPT !.op = "pause"]
  /\ UNCHANGED <<simVars, settings, foodForm, autoFoodEnabled, accumulator, pc, cursor,
                 nextFoodId, passesRun, passLog, frames, simulation, initialFoodSources,
                 statsSignal, lastTimestamp, activePlacement, controller, canvas>>

\* pauseSimulation: only while running; stopLoop cancels the requested frame.
PauseSimulation ==
  /\ userActions < MaxCommands
  /\ status = "running"
  /\ status' = "paused"
  /\ animationHandle' = "null"
  /\ pendingFrames' = StopLoopFrames
  /\ lastTimestamp' = << >>
  /\ userActions' = userActions + 1
  /\ did' = [NoDid EXCEPT !.op = "pause"]
  /\ UNCHANGED <<simVars, settings, foodForm, autoFoodEnabled, accumulator, pc, cursor,
                 nextFoodId, passesRun, passLog, frames, simulation, initialFoodSources,
                 statsSignal, activePlacement, controller, canvas>>

\* The wall-clock time, in ms, a simulation stays paused.
PauseWaits == {10}

\* resumeSimulation: only while paused; startLoop requests a frame.  The time
\* spent paused has passed since the recorded timestamp, if there is one.
ResumeSimulation ==
  /\ userActions < MaxCommands
  /\ status = "paused"
  /\ status' = "running"
  /\ animationHandle' = "pending"
  /\ pendingFrames' = StartLoopFrames
  /\ \E wait \in PauseWaits :
       lastTimestamp' = IF lastTimestamp = << >> THEN << >> ELSE <<lastTimestamp[1] + wait>>
  /\ userActions' = userActions + 1
  /\ did' = [NoDid EXCEPT !.op = "resume"]
  /\ UNCHANGED <<simVars, settings, foodForm, autoFoodEnabled, accumulator, pc, cursor,
                 nextFoodId, passesRun, passLog, frames, simulation, initialFoodSources,
                 statsSignal, activePlacement, controller, canvas>>

\* Faulty variant of ResetSimulation: the pre-placed food is kept.
ResetKeepingPlacedFood ==
  /\ userActions < MaxCommands
  /\ animationHandle' = "null"
  /\ pendingFrames' = StopLoopFrames
  /\ simulation' = "null"
  /\ StateBecomes(NoState)
  /\ statsSignal' = [deliveredFood |-> 0, elapsedSeconds |-> 0]
  /\ status' = "idle"
  /\ accumulator' = 0
  /\ lastTimestamp' = << >>
  /\ activePlacement' = "none"
  /\ userActions' = userActions + 1
  /\ did' = [NoDid EXCEPT !.op = "reset", !.index = Len(initialFoodSources)]
  /\ UNCHANGED <<settings, foodForm, autoFoodEnabled, pc, cursor, nextFoodId, passesRun, passLog,
                 frames, controller, canvas, initialFoodSources>>

\* resetSimulation.  did.index is the number of pre-placed sources before it.
ResetSimulation ==
  /\ userActions < MaxCommands
  /\ animationHandle' = "null"
  /\ pendingFrames' = StopLoopFrames
  /\ simulation' = "null"
  /\ StateBecomes(NoState)
  /\ initialFoodSources' = << >>
  /\ statsSignal' = [deliveredFood |-> 0, elapsedSeconds |-> 0]
  /\ status' = "idle"
  /\ accumulator' = 0
  /\ lastTimestamp' = << >>
  /\ activePlacement' = "none"
  /\ userActions' = userActions + 1
  /\ did' = [NoDid EXCEPT !.op = "reset", !.index = Len(initialFoodSources)]
  /\ UNCHANGED <<settings, foodForm, autoFoodEnabled, pc, cursor, nextFoodId, passesRun, passLog,
                 frames, controller, canvas>>

\* togglePlacement('click').
TogglePlacement ==
  /\ userActions < MaxCommands
  /\ activePlacement' = IF activePlacement = "click" THEN "none" ELSE "click"
  /\ userActions' = userActions + 1
  /\ did' = [NoDid EXCEPT !.op = "placement"]
  /\ UNCHANGED <<simVars, settings, foodForm, autoFoodEnabled, accumulator, pc, cursor,
                 nextFoodId, passesRun, passLog, frames, status, simulation, initialFoodSources,
                 statsSignal, lastTimestamp, animationHandle, pendingFrames, controller,
                 canvas>>

\* handlePointerDown in click mode: the source goes to the pre-placed list
\* while idle and to the simulation's sources otherwise.
PointerDown ==
  /\ userActions < MaxCommands
  /\ controller # "null"
  /\ activePlacement = "click"
  /\ \E position \in {Pos(6250, 4100)} :
       /\ initialFoodSources' =
            IF status = "idle"
            THEN Append(initialFoodSources, createFoodSource(nextFoodId, position, foodForm))
            ELSE initialFoodSources
       /\ foodSources' =
            IF status # "idle" /\ simulation # "null"
            THEN Append(foodSources, createFoodSource(nextFoodId, position, foodForm))
            ELSE foodSources
  /\ nextFoodId' = nextFoodId + 1
  /\ userActions' = userActions + 1
  /\ did' = [NoDid EXCEPT !.op = "place"]
  /\ UNCHANGED <<ants, homePheromones, foodPheromones, nestSignals, stats, foodRespawnTimer,
                 settings, foodForm, autoFoodEnabled, accumulator, pc, cursor, passesRun,
                 passLog, frames, status, simulation, statsSignal, lastTimestamp,
                 animationHandle, pendingFrames, activePlacement, controller, canvas>>

\* tick, lines 375-388, given what the while loop returned.
FrameRun(run) ==
  /\ StateBecomes(run.state)
  /\ accumulator' = run.accumulator
  /\ passesRun' = passesRun + run.passes
  /\ nextFoodId' = nextFoodId + 3 * run.passes
  /\ statsSignal' = IF run.passes > 0 THEN run.state.stats ELSE statsSignal
  /\ did' = [NoDid EXCEPT !.op = "tick", !.index = run.passes]

\* tick: the browser runs a frame callback it holds, rawDelta ms after the
\* last step; timestamp - lastTimestamp is that time added to the age of the
\* recorded timestamp.  A tick that does not return at its first test
\* requests the next callback and stores its handle.
FrameCallback(rawDelta) ==
  /\ pendingFrames > 0
  /\ IF status # "running"
     THEN /\ animationHandle' = "null"
          /\ pendingFrames' = pendingFrames - 1
          /\ did' = [NoDid EXCEPT !.op = "tick"]
          /\ UNCHANGED <<simVars, accumulator, passesRun, nextFoodId, statsSignal, lastTimestamp>>
     ELSE IF simulation = "null"
     THEN /\ did' = [NoDid EXCEPT !.op = "tick"]
          /\ animationHandle' = "pending"
          /\ pendingFrames' = pendingFrames - 1 + 1
          /\ UNCHANGED <<simVars, accumulator, passesRun, nextFoodId, statsSignal, lastTimestamp>>
     ELSE IF lastTimestamp = << >>
     THEN /\ lastTimestamp' = <<0>>
          /\ did' = [NoDid EXCEPT !.op = "tick"]
          /\ animationHandle' = "pending"
          /\ pendingFrames' = pendingFrames - 1 + 1
          /\ UNCHANGED <<simVars, accumulator, passesRun, nextFoodId, statsSignal>>
     ELSE /\ passesRun + PassesDue(Accumulate(accumulator, lastTimestamp[1] + rawDelta,
                                              settings.timeScale))
               <= MaxLifePasses
          /\ \E draws \in FrameDraws :
               FrameRun(WhileStepDue(CurrentState,
                                     Accumulate(accumulator, lastTimestamp[1] + rawDelta,
                                                settings.timeScale), 0,
                                     settings, autoFoodEnabled, foodForm, draws, nextFoodId))
          /\ animationHandle' = "pending"
          /\ pendingFrames' = pendingFrames - 1 + 1
          /\ lastTimestamp' = <<0>>
  /\ UNCHANGED <<settings, foodForm, autoFoodEnabled, pc, cursor, userActions, passLog, frames,
                 status, simulation, initialFoodSources, activePlacement, controller, canvas>>

NextLife ==
  \/ StartSimulation
  \/ PauseSimulation
  \/ ResumeSimulation
  \/ ResetSimulation
  \/ TogglePlacement
  \/ PointerDown
  \/ \E rawDelta \in FrameDeltas : FrameCallback(rawDelta)

SpecLife == InitLife /\ [][NextLife]_vars

(* ----------------------------- the setup ------------------------------- *)
\* The canvas is given its world, runs ngAfterViewInit once, and hands its
\* controller to the component; the component's commands follow.
WorldInputs ==
  {[width |-> WORLD_WIDTH, height |-> WORLD_HEIGHT],
   [width |-> 0, height |-> WORLD_HEIGHT],
   [width |-> WORLD_WIDTH, height |-> -LenOne]}

\* Canvas after construction, with its world input bound.
NewCanvas(world) ==
  [world |-> world, ctx |-> "null", controller |-> "null", readyEmitted |-> 0, raised |-> "none"]

\* No ants and no automatic food: a pass consults the world only through the
\* (empty) grids.
InitSetup ==
  /\ StateIs(NoState)
  /\ settings = [DefaultSettings EXCEPT !.antCount = 0]
  /\ foodForm = [DefaultFoodForm EXCEPT !.capacity = 10 * CapOne, !.radius = LenOne]
  /\ autoFoodEnabled = FALSE
  /\ accumulator = 0
  /\ pc = "frame"
  /\ cursor = 0
  /\ nextFoodId = 0
  /\ passesRun = 0
  /\ userActions = 0
  /\ did = NoDid
  /\ passLog = {}
  /\ frames = NoFrames
  /\ status = "idle"
  /\ simulation = "null"
  /\ initialFoodSources = << >>
  /\ statsSignal = [deliveredFood |-> 0, elapsedSeconds |-> 0]
  /\ lastTimestamp = << >>
  /\ animationHandle = "null"
  /\ pendingFrames = 0
  /\ activePlacement = "click"
  /\ controller = "null"
  /\ \E world \in WorldInputs : canvas = NewCanvas(world)

\* Canvas.ngAfterViewInit: initContext stores the context and calls
\* updateSize, which throws on a non-positive world before createController
\* and emitReady run; otherwise the controller is created and emitted, and
\* handleCanvasReady stores it in the component.
CanvasAfterViewInit ==
  /\ canvas.ctx = "null"
  /\ IF canvas.world.width <= 0 \/ canvas.world.height <= 0
     THEN /\ canvas' = [canvas EXCEPT !.ctx = "context",
                                      !.raised = "World dimensions must be positive."]
          /\ UNCHANGED controller
     ELSE /\ canvas' = [canvas EXCEPT !.ctx = "context", !.controller = "ready",
                                      !.readyEmitted = 1]
          /\ controller' = "ready"
  /\ did' = [NoDid EXCEPT !.op = "setup"]
  /\ UNCHANGED <<simVars, settings, foodForm, autoFoodEnabled, accumulator, pc, cursor,
                 nextFoodId, passesRun, userActions, passLog, frames, status, simulation,
                 initialFoodSources, statsSignal, lastTimestamp, animationHandle,
                 pendingFrames, activePlacement>>

\* The view is initialised before the first user event or frame.
AfterSetup ==
  /\ canvas.ctx # "null"
  /\ NextLife

NextSetup ==
  \/ CanvasAfterViewInit
  \/ AfterSetup

SpecSetup == InitSetup /\ [][NextSetup]_vars

(* ----------------------------- the foraging run ------------------------ *)
\* One ant at the nest heading at a single source at (100, 40), update
\* passes of SIMULATION_STEP one after the other, followed up to the first
\* delivery.  Math.random() returns its lowest value throughout; with
\* randomness 0 the heading jitter is 0 whatever it returns, with randomness
\* 2.516 the ant turns a quarter circle in every pass.  Nothing in a pass
\* reads elapsedSeconds, which is kept up to MaxForagePasses steps;
\* passesRun counts the passes modulo MaxForagePasses.
MaxForagePasses == 230
ForageDraws ==
  {[spawn |-> <<<<0, 500>>, <<500, 999>>>>,
    ant |-> [jitter |-> 0, deflect |-> 0, outbound |-> 0, edge |-> [k \in 1..6 |-> <<0, 0>>]],
    respawn |-> [count |-> 0, delay |-> 0,
                 picks |-> <<[x |-> 2000, y |-> 2000], [x |-> 2400, y |-> 2000],
                             [x |-> 9000, y |-> 6000]>>]]}

InitForage ==
  /\ StateIs([NoState EXCEPT
                !.ants = <<[createAnt(0, getWorldCenter, 0, 0, 500) EXCEPT !.direction = 0]>>,
                !.foodSources = <<createFoodSource(0, Pos(10000, 4000), DefaultFoodForm)>>,
                !.foodRespawnTimer = FOOD_RESPAWN_MIN_DELAY])
  /\ \E randomness \in {0, 2516} :
       settings = [DefaultSettings EXCEPT !.antCount = 1, !.randomness = randomness]
  /\ foodForm = DefaultFoodForm
  /\ autoFoodEnabled = FALSE
  /\ accumulator = 0
  /\ pc = "frame"
  /\ cursor = 0
  /\ nextFoodId = 1
  /\ passesRun = 0
  /\ userActions = 0
  /\ did = NoDid
  /\ passLog = {}
  /\ frames = NoFrames
  /\ RunningLifecycle

\* The state a pass returned, elapsedSeconds kept up to the horizon.
Observed(st) ==
  [st EXCEPT !.stats.elapsedSeconds = Min(@, MaxForagePasses * SIMULATION_STEP)]

\* One updateSimulation(SIMULATION_STEP) pass.
ForagePass ==
  /\ stats.deliveredFood = 0
  /\ \E draws \in ForageDraws :
       StateBecomes(Observed(updateSimulation(CurrentState, settings, SIMULATION_STEP,
                                              autoFoodEnabled, foodForm, draws, nextFoodId)))
  /\ statsSignal' = stats'
  /\ passesRun' = (passesRun + 1) % MaxForagePasses
  /\ did' = [NoDid EXCEPT !.op = "pass"]
  /\ UNCHANGED <<settings, foodForm, autoFoodEnabled, accumulator, pc, cursor, nextFoodId,
                 userActions, passLog, frames>>
  /\ UNCHANGED lifeVarsButStats

NextForage == ForagePass

\* A pass has been run.
PassTaken ==
  /\ stats.deliveredFood = 0
  /\ passesRun' = (passesRun + 1) % MaxForagePasses

\* The frame callback keeps running passes.
SpecForage == InitForage /\ [][NextForage]_vars /\ WF_passesRun(PassTaken)

(* ----------------------------- passive depletion ----------------------- *)
\* No ants and one placed source, update passes of SIMULATION_STEP one after
\* the other.  The source has id 0 and the form's capacity and depletion
\* rate; the form is not edited afterwards.
MaxDepletionPasses == 24
PlacedCapacities == {CapOne \div 10, 3 * (CapOne \div 10), CapOne \div 2}
PlacedDepletionRates == {250, 500}

InitDeplete ==
  /\ \E capacity \in PlacedCapacities, depletionRate \in PlacedDepletionRates :
       foodForm = [DefaultFoodForm EXCEPT !.capacity = capacity, !.depletionRate = depletionRate]
  /\ StateIs([NoState EXCEPT
                !.foodSources = <<createFoodSource(0, Pos(10000, 4000), foodForm)>>,
                !.foodRespawnTimer = FOOD_RESPAWN_MIN_DELAY])
  /\ \E allowFoodDepletion \in BOOLEAN :
       settings = [DefaultSettings EXCEPT !.antCount = 0,
                                          !.allowFoodDepletion = allowFoodDepletion]
  /\ autoFoodEnabled \in BOOLEAN
  /\ accumulator = 0
  /\ pc = "frame"
  /\ cursor = 0
  /\ nextFoodId = 1
  /\ passesRun = 0
  /\ userActions = 0
  /\ did = NoDid
  /\ passLog = {}
  /\ frames = NoFrames
  /\ RunningLifecycle

\* One updateSimulation(SIMULATION_STEP) pass.
DepletePass ==
  /\ passesRun < MaxDepletionPasses
  /\ \E draws \in ForageDraws :
       StateBecomes(updateSimulation(CurrentState, settings, SIMULATION_STEP, autoFoodEnabled,
                                     foodForm, draws, nextFoodId))
  /\ statsSignal' = stats'
  /\ passesRun' = passesRun + 1
  /\ did' = [NoDid EXCEPT !.op = "pass"]
  /\ UNCHANGED <<settings, foodForm, autoFoodEnabled, accumulator, pc, cursor, nextFoodId,
                 userActions, passLog, frames>>
  /\ UNCHANGED lifeVarsButStats

NextDeplete == DepletePass

SpecDeplete == InitDeplete /\ [][NextDeplete]_vars

(* ----------------------------- the respawn ----------------------------- *)
\* No ants, automatic food on, the countdown about to elapse, with no source
\* or with one placed before the form's radius was edited.  did.respawn
\* holds the draws of the pass and did.index the number of sources before.
MaxRespawnPasses == 3
RespawnPicks ==
  {<<[x |-> 2000, y |-> 2000], [x |-> 2400, y |-> 2000], [x |-> 9000, y |-> 6000]>>,
   <<[x |-> 6500, y |-> 4000], [x |-> 2000, y |-> 2000], [x |-> 2000, y |-> 2000]>>,
   <<[x |-> 9000, y |-> 6000], [x |-> 2600, y |-> 2000], [x |-> 2750, y |-> 2000]>>}
RespawnCases == [count : {0, 999}, delay : {0}, picks : RespawnPicks]

InitRespawn ==
  /\ \E sources \in {<< >>, <<createFoodSource(0, Pos(2200, 2000), DefaultFoodForm)>>},
        timer \in {SIMULATION_STEP, 2 * SIMULATION_STEP} :
       StateIs([NoState EXCEPT !.foodSources = sources, !.foodRespawnTimer = timer])
  /\ settings = [DefaultSettings EXCEPT !.antCount = 0]
  /\ \E radius \in {LenOne, FOOD_RADIUS_DEFAULT} :
       foodForm = [DefaultFoodForm EXCEPT !.radius = radius]
  /\ autoFoodEnabled = TRUE
  /\ accumulator = 0
  /\ pc = "frame"
  /\ cursor = 0
  /\ nextFoodId = 1
  /\ passesRun = 0
  /\ userActions = 0
  /\ did = NoDid
  /\ passLog = {}
  /\ frames = NoFrames
  /\ RunningLifecycle

\* One updateSimulation(SIMULATION_STEP) pass.
RespawnPass ==
  /\ passesRun < MaxRespawnPasses
  /\ \E respawn \in RespawnCases :
       /\ \E draws \in ForageDraws :
            StateBecomes(updateSimulation(CurrentState, settings, SIMULATION_STEP,
                                          autoFoodEnabled, foodForm,
                                          [draws EXCEPT !.respawn = respawn], nextFoodId))
       /\ did' = [NoDid EXCEPT !.op = "pass", !.index = Len(foodSources),
                               !.respawn = respawn]
  /\ statsSignal' = stats'
  /\ passesRun' = passesRun + 1
  /\ nextFoodId' = nextFoodId + 3
  /\ UNCHANGED <<settings, foodForm, autoFoodEnabled, accumulator, pc, cursor, userActions,
                 passLog, frames>>
  /\ UNCHANGED lifeVarsButStats

NextRespawn == RespawnPass

SpecRespawn == InitRespawn /\ [][NextRespawn]_vars

(* ----------------------------- the long carry -------------------------- *)
\* One forager standing on a source 38 units east of the nest, update passes
\* of SIMULATION_STEP one after the other, randomness 0.  At speed 0 the ant
\* picks up and never moves, at speed 0.9 it needs more than 35 s to walk
\* home, at the default speed it makes several round trips.  did.index holds
\* the pass of the ant's last pickup.
MaxCarryPasses == 900
CarrySpeeds == {0, 900, 7000}

InitCarry ==
  /\ StateIs([NoState EXCEPT
                !.ants = <<MidRunAnt(0, Pos(9800, 4000), 180, FALSE, 0, FALSE, 0)>>,
                !.foodSources = <<createFoodSource(0, Pos(10000, 4000), DefaultFoodForm)>>,
                !.foodRespawnTimer = FOOD_RESPAWN_MIN_DELAY])
  /\ \E antSpeed \in CarrySpeeds :
       settings = [DefaultSettings EXCEPT !.antCount = 1, !.randomness = 0,
                                          !.antSpeed = antSpeed]
  /\ foodForm = DefaultFoodForm
  /\ autoFoodEnabled = FALSE
  /\ accumulator = 0
  /\ pc = "frame"
  /\ cursor = 0
  /\ nextFoodId = 1
  /\ passesRun = 0
  /\ userActions = 0
  /\ did = NoDid
  /\ passLog = {}
  /\ frames = NoFrames
  /\ RunningLifecycle

\* One updateSimulation(SIMULATION_STEP) pass.
CarryPass ==
  /\ passesRun < MaxCarryPasses
  /\ \E draws \in ForageDraws :
       StateBecomes(updateSimulation(CurrentState, settings, SIMULATION_STEP, autoFoodEnabled,
                                     foodForm, draws, nextFoodId))
  /\ statsSignal' = stats'
  /\ passesRun' = passesRun + 1
  /\ did' = [NoDid EXCEPT !.op = "pass",
                          !.index = IF ~ants[1].carryingFood /\ ants'[1].carryingFood
                                    THEN passesRun + 1 ELSE did.index]
  /\ UNCHANGED <<settings, foodForm, autoFoodEnabled, accumulator, pc, cursor, nextFoodId,
                 userActions, passLog, frames>>
  /\ UNCHANGED lifeVarsButStats

NextCarry == CarryPass

SpecCarry == InitCarry /\ [][NextCarry]_vars

(* ----------------------------- the clock alone ------------------------- *)
\* tick on a running simulation whose lastTimestamp is set, frame after
\* frame: raw frame times from none to a stall of 0.2 s, under time
\* scales from 0.1 to 4.  The population is resized to one ant by the first
\* pass.  frames.wallA holds the raw time of the frames so far and
\* frames.countA their number.
MaxClockFrames == 3
ClockDeltas == {0, 7, 17, 34, 150, 200}
ClockScales == {100, 1000, 3000, 4000}

InitClock ==
  /\ StateIs([NoState EXCEPT !.foodRespawnTimer = FOOD_RESPAWN_MIN_DELAY])
  /\ \E timeScale \in ClockScales :
       settings = [DefaultSettings EXCEPT !.antCount = 1, !.timeScale = timeScale]
  /\ foodForm = DefaultFoodForm
  /\ autoFoodEnabled = FALSE
  /\ accumulator = 0
  /\ pc = "frame"
  /\ cursor = 0
  /\ nextFoodId = 0
  /\ passesRun = 0
  /\ userActions = 0
  /\ did = NoDid
  /\ passLog = {}
  /\ frames = NoFrames
  /\ RunningLifecycle

\* tick, lines 375-388.
ClockTick(rawDelta) ==
  /\ frames.countA < MaxClockFrames
  /\ \E draws \in ForageDraws :
       FrameRun(WhileStepDue(CurrentState,
                             Accumulate(accumulator, rawDelta, settings.timeScale), 0,
                             settings, autoFoodEnabled, foodForm, draws, nextFoodId))
  /\ frames' = [frames EXCEPT !.wallA = @ + rawDelta, !.countA = @ + 1]
  /\ UNCHANGED <<settings, foodForm, autoFoodEnabled, pc, cursor, userActions, passLog>>
  /\ UNCHANGED lifeVarsButStats

NextClock == \E rawDelta \in ClockDeltas : ClockTick(rawDelta)

SpecClock == InitClock /\ [][NextClock]_vars

(* ----------------------------- sensing and depositing ------------------ *)
\* The frame loop of SpecRun from a state in the middle of a run: one ant 30
\* units east of the nest heading east, foraging, carrying or forced to
\* return, with home trail under its probes to one side and food trail under
\* its probes to the other side.
SenseLoads == {<<FALSE, FALSE>>, <<TRUE, FALSE>>, <<TRUE, TRUE>>}
SenseTrail(cells) == [cell \in cells |-> PheroOne \div 2]
SenseCells(side) ==
  {sampleGridCell(projectMove(Pos(9000, 4000), side * offset[1], offset[2])) :
     offset \in {<<60, 400>>, <<60, 500>>, <<64, 600>>, <<36, 600>>}}

InitSense ==
  /\ \E load \in SenseLoads :
       ants = <<MidRunAnt(0, Pos(9000, 4000), 0, load[1], 0, load[2], 0)>>
  /\ foodSources = << >>
  /\ homePheromones = SenseTrail(SenseCells(1))
  /\ foodPheromones = SenseTrail(SenseCells(-1))
  /\ nestSignals = createPheromoneGrid
  /\ stats = [deliveredFood |-> 0, elapsedSeconds |-> 0]
  /\ foodRespawnTimer = FOOD_RESPAWN_MIN_DELAY
  /\ settings = [DefaultSettings EXCEPT !.antCount = 1]
  /\ foodForm = [DefaultFoodForm EXCEPT !.capacity = 10 * CapOne, !.radius = LenOne]
  /\ autoFoodEnabled = FALSE
  /\ accumulator = 0
  /\ pc = "frame"
  /\ cursor = 0
  /\ nextFoodId = 10
  /\ passesRun = 0
  /\ userActions = 0
  /\ did = NoDid
  /\ passLog = {}
  /\ frames = NoFrames
  /\ RunningLifecycle

SpecSense == InitSense /\ [][NextRun]_vars

(* ----------------------------- ants at the world's edge ---------------- *)
\* The frame loop of SpecRun from states in the middle of a run: one ant in
\* the far corner, beside the west edge or beside the south edge, heading
\* outward, foraging or carrying, under speeds from 0 to 4000 (200 units a
\* pass, more than the world is wide).
EdgeSpeeds == {0, 7000, 4000000}
EdgeAnts ==
  {[position |-> Pos(WORLD_WIDTH, WORLD_HEIGHT), direction |-> 45],
   [position |-> Pos(20, 4000), direction |-> 180],
   [position |-> Pos(6000, WORLD_HEIGHT - 10), direction |-> 45]}

InitEdge ==
  /\ \E ant \in EdgeAnts, carrying \in BOOLEAN :
       ants = <<MidRunAnt(0, ant.position, ant.direction, carrying, 0, FALSE, 0)>>
  /\ foodSources = << >>
  /\ homePheromones = createPheromoneGrid
  /\ foodPheromones = createPheromoneGrid
  /\ nestSignals = createPheromoneGrid
  /\ stats = [deliveredFood |-> 0, elapsedSeconds |-> 0]
  /\ foodRespawnTimer = FOOD_RESPAWN_MIN_DELAY
  /\ \E antSpeed \in EdgeSpeeds :
       settings = [DefaultSettings EXCEPT !.antCount = 1, !.antSpeed = antSpeed]
  /\ foodForm = [DefaultFoodForm EXCEPT !.capacity = 10 * CapOne, !.radius = LenOne]
  /\ autoFoodEnabled = FALSE
  /\ accumulator = 0
  /\ pc = "frame"
  /\ cursor = 0
  /\ nextFoodId = 10
  /\ passesRun = 0
  /\ userActions = 0
  /\ did = NoDid
  /\ passLog = {}
  /\ frames = NoFrames
  /\ RunningLifecycle

SpecEdge == InitEdge /\ [][NextRun]_vars

(* ----------------------------- automatic food -------------------------- *)
\* No ants, no, three or five placed sources of radius 1, automatic food on
\* or off, the countdown about to elapse: update passes of SIMULATION_STEP,
\* with the user toggling automatic food or placing a source in between.
\* did.respawn holds the draws of the pass and did.index the number of
\* sources before it.
MaxAutoFoodPasses == 3
PlacedPositions ==
  <<Pos(2200, 2000), Pos(9000, 2000), Pos(3000, 6500), Pos(10500, 6500), Pos(6000, 1000),
    Pos(6000, 7000)>>
PlacedCounts == {0, 3, 5}
AutoFoodCases ==
  [count : {0, 999}, delay : {0, 999},
   picks : {<<[x |-> 2000, y |-> 3000], [x |-> 2400, y |-> 5000], [x |-> 9000, y |-> 6000]>>,
            <<[x |-> 6500, y |-> 4000], [x |-> 6000, y |-> 4500], [x |-> 5500, y |-> 4000]>>}]

InitAutoFood ==
  /\ foodForm = [DefaultFoodForm EXCEPT !.radius = LenOne]
  /\ \E placed \in PlacedCounts :
       /\ StateIs([NoState EXCEPT
                     !.foodSources = [k \in 1..placed |->
                                        createFoodSource(k - 1, PlacedPositions[k], foodForm)],
                     !.foodRespawnTimer = SIMULATION_STEP])
       /\ nextFoodId = placed
  /\ settings = [DefaultSettings EXCEPT !.antCount = 0]
  /\ autoFoodEnabled \in BOOLEAN
  /\ accumulator = 0
  /\ pc = "frame"
  /\ cursor = 0
  /\ passesRun = 0
  /\ userActions = 0
  /\ did = NoDid
  /\ passLog = {}
  /\ frames = NoFrames
  /\ RunningLifecycle

\* One updateSimulation(SIMULATION_STEP) pass.
AutoFoodPass ==
  /\ passesRun < MaxAutoFoodPasses
  /\ \E respawn \in AutoFoodCases :
       /\ \E draws \in ForageDraws :
            StateBecomes(updateSimulation(CurrentState, settings, SIMULATION_STEP,
                                          autoFoodEnabled, foodForm,
                                          [draws EXCEPT !.respawn = respawn], nextFoodId))
       /\ did' = [NoDid EXCEPT !.op = "pass", !.index = Len(foodSources),
                               !.respawn = respawn]
  /\ statsSignal' = stats'
  /\ passesRun' = passesRun + 1
  /\ nextFoodId' = nextFoodId + 3
  /\ UNCHANGED <<settings, foodForm, autoFoodEnabled, accumulator, pc, cursor, userActions,
                 passLog, frames>>
  /\ UNCHANGED lifeVarsButStats

NextAutoFood ==
  \/ AutoFoodPass
  \/ ToggleAutoFood
  \/ PlaceFood

SpecAutoFood == InitAutoFood /\ [][NextAutoFood]_vars

(* ----------------------------- stalled ants ---------------------------- *)
\* The frame loop of SpecRun from states in the middle of a run: one ant on
\* the west edge heading outward, foraging or carrying, that has not moved
\* for 0.2 s, 0.25 s or 0.4 s, half a deposit interval accumulated or none,
\* under speed 0 (it stays stalled) or the default speed (it gets away).  The
\* cell under the ant holds no trail, or 0.6 in both trail fields.
StalledTimes == {200, 250, 400}
StallSpeeds == {0, 7000}
StallTrails == {0, 60000}

InitStall ==
  /\ \E stalledTime \in StalledTimes, carrying \in BOOLEAN, pending \in {0, SIMULATION_STEP} :
       ants = <<[MidRunAnt(0, Pos(0, 4000), 180, carrying, 0, FALSE, stalledTime)
                   EXCEPT !.depositAccumulator = pending]>>
  /\ foodSources = << >>
  /\ \E trail \in StallTrails :
       /\ homePheromones = GridStore(createPheromoneGrid, sampleGridCell(Pos(0, 4000)), trail)
       /\ foodPheromones = GridStore(createPheromoneGrid, sampleGridCell(Pos(0, 4000)), trail)
  /\ nestSignals = createPheromoneGrid
  /\ stats = [deliveredFood |-> 0, elapsedSeconds |-> 0]
  /\ foodRespawnTimer = FOOD_RESPAWN_MIN_DELAY
  /\ \E antSpeed \in StallSpeeds :
       settings = [DefaultSettings EXCEPT !.antCount = 1, !.antSpeed = antSpeed]
  /\ foodForm = [DefaultFoodForm EXCEPT !.capacity = 10 * CapOne, !.radius = LenOne]
  /\ autoFoodEnabled = FALSE
  /\ accumulator = 0
  /\ pc = "frame"
  /\ cursor = 0
  /\ nextFoodId = 10
  /\ passesRun = 0
  /\ userActions = 0
  /\ did = NoDid
  /\ passLog = {}
  /\ frames = NoFrames
  /\ RunningLifecycle

SpecStall == InitStall /\ [][NextRun]_vars

(* ----------------------------- simulated time -------------------------- *)
\* The commands and frame callbacks of SpecLife on a component whose
\* timeScale control is at 1 or 4 and whose antCount control is at 1.
ElapsedScales == {1000, 4000}

InitElapsed ==
  /\ StateIs(NoState)
  /\ \E timeScale \in ElapsedScales :
       settings = [DefaultSettings EXCEPT !.antCount = 1, !.timeScale = timeScale]
  /\ foodForm = [DefaultFoodForm EXCEPT !.capacity = 10 * CapOne, !.radius = LenOne]
  /\ autoFoodEnabled = TRUE
  /\ accumulator = 0
  /\ pc = "frame"
  /\ cursor = 0
  /\ nextFoodId = 0
  /\ passesRun = 0
  /\ userActions = 0
  /\ did = NoDid
  /\ passLog = {}
  /\ frames = NoFrames
  /\ status = "idle"
  /\ simulation = "null"
  /\ initialFoodSources = << >>
  /\ statsSignal = [deliveredFood |-> 0, elapsedSeconds |-> 0]
  /\ lastTimestamp = << >>
  /\ animationHandle = "null"
  /\ pendingFrames = 0
  /\ activePlacement = "click"
  /\ controller = "ready"
  /\ canvas = ReadyCanvas

SpecElapsed == InitElapsed /\ [][NextLife]_vars

(* ----------------------------- contention for food --------------------- *)
\* The frame loop of SpecRun from states in the middle of a run: up to
\* MaxContenders ants around one source of radius 1 at (90, 40) that holds
\* from 0 to 3 units and has held nothing else (maxCapacity is its capacity).
\* The first ant is a forager inside the source, a forager outside it or a
\* carrier inside it; the others are foragers inside it.  The randomness
\* control is at 0: the ants walk straight on.
MaxContenders == 3
ContendCapacities == 0..3
ContendKinds == {"inside", "outside", "carrier"}
ContendSource == Pos(9000, 4000)

Contender(i, kind) ==
  IF i > 1 \/ kind = "inside"
  THEN MidRunAnt(i - 1, Pos(ContendSource.x - 10 * i, ContendSource.y), 0, FALSE, 0, FALSE, 0)
  ELSE IF kind = "outside"
  THEN MidRunAnt(0, Pos(ContendSource.x - 2 * LenOne, ContendSource.y), 180, FALSE, 0, FALSE, 0)
  ELSE MidRunAnt(0, Pos(ContendSource.x - 10, ContendSource.y), 0, TRUE, 2000, FALSE, 0)

InitContend ==
  /\ \E n \in 1..MaxContenders, kind \in ContendKinds :
       /\ ants = [i \in 1..n |-> Contender(i, kind)]
       /\ settings = [DefaultSettings EXCEPT !.antCount = n, !.randomness = 0]
  /\ \E c \in ContendCapacities :
       foodSources = <<MidRunSource(1, ContendSource, c * CapOne, c * CapOne, 50)>>
  /\ homePheromones = createPheromoneGrid
  /\ foodPheromones = createPheromoneGrid
  /\ nestSignals = createPheromoneGrid
  /\ stats = [deliveredFood |-> 0, elapsedSeconds |-> 0]
  /\ foodRespawnTimer = FOOD_RESPAWN_MIN_DELAY
  /\ foodForm = [DefaultFoodForm EXCEPT !.capacity = 10 * CapOne, !.radius = LenOne]
  /\ autoFoodEnabled = FALSE
  /\ accumulator = 0
  /\ pc = "frame"
  /\ cursor = 0
  /\ nextFoodId = 10
  /\ passesRun = 0
  /\ userActions = 0
  /\ did = NoDid
  /\ passLog = {}
  /\ frames = NoFrames
  /\ RunningLifecycle

SpecContend == InitContend /\ [][NextRun]_vars

(* ----------------------------- pre-placed food ------------------------- *)
\* The commands and frame callbacks of SpecLife on an idle component with one
\* source placed beside the nest, within reach of the ants in their first
\* pass.
InitPlaced ==
  /\ StateIs(NoState)
  /\ settings = [DefaultSettings EXCEPT !.antCount = 1]
  /\ foodForm = [DefaultFoodForm EXCEPT !.capacity = 10 * CapOne, !.radius = LenOne]
  /\ autoFoodEnabled = TRUE
  /\ accumulator = 0
  /\ pc = "frame"
  /\ cursor = 0
  /\ nextFoodId = 1
  /\ passesRun = 0
  /\ userActions = 0
  /\ did = NoDid
  /\ passLog = {}
  /\ frames = NoFrames
  /\ status = "idle"
  /\ simulation = "null"
  /\ initialFoodSources = <<createFoodSource(0, Pos(6050, 4000), foodForm)>>
  /\ statsSignal = [deliveredFood |-> 0, elapsedSeconds |-> 0]
  /\ lastTimestamp = << >>
  /\ animationHandle = "null"
  /\ pendingFrames = 0
  /\ activePlacement = "click"
  /\ controller = "ready"
  /\ canvas = ReadyCanvas

SpecPlaced == InitPlaced /\ [][NextLife]_vars

(* ----------------------------- properties ------------------------------ *)
\* C1: whatever sequence of deposit, mark and evaporate calls has been made,
\* every cell of the home-trail, food-trail and nest-signal grids is a cell of
\* the grid and holds a value in [0, 1].
C1_CellsWithinUnit ==
  \A grid \in {homePheromones, foodPheromones, nestSignals} :
    \A index \in DOMAIN grid :
      /\ index \in 0..(GridColumns * GridRows - 1)
      /\ grid[index] >= 0
      /\ grid[index] <= PheroOne

\* A deposit has just saturated a home-trail cell at 1 while the nest-signal
\* grid holds a mark that evaporation has reduced.
C1_Witness ==
  /\ did.op = "deposit"
  /\ \E index \in DOMAIN homePheromones : homePheromones[index] = PheroOne
  /\ \E index \in DOMAIN nestSignals : nestSignals[index] \notin DepositAmounts

\* C2: between any two ant updates of a pass and at every step boundary,
\* every ant with forceReturn set is carrying food; the same holds of the ant
\* right after the carry-timer block that opens its next update.
C2_ForceReturnOnlyWhileCarrying ==
  \A i \in 1..Len(ants) :
    /\ ants[i].forceReturn => ants[i].carryingFood
    /\ CarryTimer(ants[i], SIMULATION_STEP).forceReturn
         => CarryTimer(ants[i], SIMULATION_STEP).carryingFood

\* An ant that was forced to return has just delivered its food, and its
\* flags are both cleared.
C2_Witness ==
  /\ did.op = "ant"
  /\ did.delivered
  /\ did.forcedBefore
  /\ ~ants[did.index].forceReturn
  /\ ~ants[did.index].carryingFood

\* C3: the capacity of every food source lies in [0, maxCapacity], after any
\* pickups and passive-depletion steps.
C3_CapacityWithinBounds ==
  \A k \in 1..Len(foodSources) :
    /\ foodSources[k].capacity >= 0
    /\ foodSources[k].capacity <= foodSources[k].maxCapacity

\* A source that passive depletion left with less than one unit has just been
\* emptied by a pickup.
C3_Witness ==
  \E k \in 1..Len(foodSources) :
    /\ did.op = "ant"
    /\ did.pickup = k
    /\ did.capacityBefore > 0
    /\ foodSources[k].capacity = 0
    /\ foodSources[k].maxCapacity > 0

\* C4 as stated: after the food-lifecycle pass every source removed in it had
\* a capacity below 0.1 and every source at or above 0.1 is still active.
C4_RemovedExactlyBelowThreshold ==
  did.op = "end" =>
    /\ \A r \in did.removed : r.capacity < CapOne \div 10
    /\ \A k \in 1..Len(foodSources) : foodSources[k].capacity >= CapOne \div 10

\* C4, amended: after the food-lifecycle pass every source removed in it had
\* a capacity of at most 0.1 and every active source has a capacity above
\* 0.1; a source at exactly 0.1 is removed.
C4_RemovedExactlyAtOrBelowThreshold ==
  did.op = "end" =>
    /\ \A r \in did.removed : r.capacity <= CapOne \div 10
    /\ \A k \in 1..Len(foodSources) : foodSources[k].capacity > CapOne \div 10

\* The food-lifecycle pass has just removed a source whose capacity was
\* exactly 0.1 and kept another one.
C4_Witness ==
  /\ did.op = "end"
  /\ \E r \in did.removed : r.capacity = CapOne \div 10
  /\ Len(foodSources) > 0

\* C5 as stated: when a foraging ant ends its move within the radius of a
\* source with capacity > 0, that source's capacity drops by exactly 1, the
\* ant carries food with carryingTime 0, and no other source changes.
C5_PickupTakesExactlyOne ==
  [][(pc = "ants" /\ cursor <= Len(ants) /\ ~ants[cursor].carryingFood
        /\ findFoodSource(foodSources, ants'[cursor].position) > 0)
     => LET k == findFoodSource(foodSources, ants'[cursor].position)
        IN /\ foodSources'[k].capacity = foodSources[k].capacity - CapOne
           /\ ants'[cursor].carryingFood
           /\ ants'[cursor].carryingTime = 0
           /\ Len(foodSources') = Len(foodSources)
           /\ \A j \in 1..Len(foodSources) : j # k => foodSources'[j] = foodSources[j]]_vars

\* C5, amended: when a foraging ant ends its move within the radius of a
\* source with capacity > 0, that source's capacity becomes
\* max(0, capacity - 1) (a source with less than one unit is emptied), the ant
\* carries food with carryingTime 0, and no other source changes.
C5_PickupTakesOneOrTheRest ==
  [][(pc = "ants" /\ cursor <= Len(ants) /\ ~ants[cursor].carryingFood
        /\ findFoodSource(foodSources, ants'[cursor].position) > 0)
     => LET k == findFoodSource(foodSources, ants'[cursor].position)
        IN /\ foodSources'[k].capacity =
                IF foodSources[k].capacity >= CapOne
                THEN foodSources[k].capacity - CapOne ELSE 0
           /\ ants'[cursor].carryingFood
           /\ ants'[cursor].carryingTime = 0
           /\ Len(foodSources') = Len(foodSources)
           /\ \A j \in 1..Len(foodSources) : j # k => foodSources'[j] = foodSources[j]]_vars

\* An ant has just picked up from a source that passive depletion had left
\* with less than one unit.
C5_Witness ==
  /\ did.op = "ant"
  /\ did.pickup > 0
  /\ did.capacityBefore > 0
  /\ did.capacityBefore < CapOne
  /\ ants[did.index].carryingFood
  /\ ants[did.index].carryingTime = 0

\* C6: after updateAntPopulation is called with target N (0 <= N), the
\* population has exactly N ants, whether it had fewer, as many or more.
C6_ResizeYieldsTarget ==
  did.op = "resize" => Len(ants) = settings.antCount

\* A resize has just shrunk a population to a smaller, non-empty one whose
\* ants were created by two separate growths.
C6_Witness ==
  /\ did.op = "resize"
  /\ did.index > Len(ants)
  /\ Len(ants) >= 2
  /\ ants[2].id > 1

\* C7: after every updateAnt call the direction of every ant lies in
\* [0, 2 pi), i.e. in [0, 360) degrees.
C7_DirectionNormalized ==
  \A i \in 1..Len(ants) : ants[i].direction >= 0 /\ ants[i].direction < TwoPi

\* C8: the length of every ant's pathIntegration vector is at most 1.5 times
\* the larger world dimension.
C8_PathIntegrationBounded ==
  \A i \in 1..Len(ants) :
    ants[i].pathIntegration.x * ants[i].pathIntegration.x
      + ants[i].pathIntegration.y * ants[i].pathIntegration.y
    <= ((3 * Max(WORLD_WIDTH, WORLD_HEIGHT)) \div 2) * ((3 * Max(WORLD_WIDTH, WORLD_HEIGHT)) \div 2)

\* An ant in the far corner of the world, as far from the nest as an ant can
\* be, has just been turned back by the re-bias loop and has moved.
C8_Witness ==
  /\ did.op = "ant"
  /\ did.attempts > 0
  /\ ants[did.index].pathIntegration.x * ants[did.index].pathIntegration.x
       + ants[did.index].pathIntegration.y * ants[did.index].pathIntegration.y
     > 7000 * 7000
  /\ ants[did.index].stalledTime = 0

\* C9 as stated: two frame schedules under one timeScale that cover the same
\* wall-clock time have run the same number of update passes.
C9_SameWallSamePasses ==
  frames.wallA = frames.wallB => frames.passesA = frames.passesB

\* C9, amended: two frame schedules under one timeScale that cover the same
\* wall-clock time, and in which no frame's scaled time exceeded
\* MAX_FRAME_DELTA, have run the same number of update passes and hold the
\* same remainder.
C9_SameWallSamePassesUnclamped ==
  (frames.wallA = frames.wallB /\ ~frames.clamped)
    => (frames.passesA = frames.passesB /\ frames.accA = frames.accB)

\* Two schedules with different numbers of frames, none clamped, cover the
\* same wall-clock time; passes were run and a remainder is left.
C9_Witness ==
  /\ frames.wallA = frames.wallB
  /\ ~frames.clamped
  /\ frames.countA # frames.countB
  /\ frames.countA > 0
  /\ frames.countB > 0
  /\ frames.passesA > 0
  /\ frames.accA > 0

\* C10: while the agent loop runs, the ants before the cursor have been
\* updated and no other; every trail deposit made in this pass by an earlier
\* ant is in its grid, with at least the value the deposit left, when the next
\* ant is updated (nothing evaporates or is reinforced in between).
C10_EarlierDepositsVisible ==
  pc = "ants" =>
    \A e \in passLog :
      /\ e.index < cursor
      /\ e.value > 0
      /\ GridValue(IF e.into = "home" THEN homePheromones ELSE foodPheromones, e.cell)
           >= e.value

\* The second ant of a pass has just been updated after the first ant of the
\* same pass made a deposit.
C10_Witness ==
  /\ pc = "ants"
  /\ did.op = "ant"
  /\ did.index = 2
  /\ \E e \in passLog : e.index = 1

\* C11: pauseSimulation and resumeSimulation leave the simulation state (the
\* ants, the food sources, the three grids, the statistics, the respawn timer)
\* and the accumulator as they are, and between the two no update pass runs:
\* while the status is paused the state changes only when the user places
\* food, starts or resets.
C11_PauseResumeKeepState ==
  [][/\ did'.op \in {"pause", "resume"}
        => UNCHANGED <<simVars, accumulator, simulation, passesRun>>
     /\ status = "paused"
        => /\ passesRun' = passesRun
           /\ did'.op \notin {"place", "start", "reset"} => UNCHANGED <<simVars, accumulator>>]_vars

\* A simulation that ran a pass and has time left in the accumulator has just
\* been resumed.
C11_Witness ==
  /\ did.op = "resume"
  /\ status = "running"
  /\ passesRun > 0
  /\ accumulator > 0
  /\ Len(ants) > 0

\* C12: after startSimulation the status is running and the state is fresh:
\* settings.antCount ants, all at the nest and not carrying, the three grids
\* zero, the statistics zero, the accumulator 0, and the food sources the
\* pre-placed ones.
C12_StartGivesFreshState ==
  did.op = "start"
    => /\ status = "running"
       /\ simulation = "state"
       /\ Len(ants) = settings.antCount
       /\ \A i \in 1..Len(ants) : ants[i].position = getWorldCenter /\ ~ants[i].carryingFood
       /\ homePheromones = createPheromoneGrid
       /\ foodPheromones = createPheromoneGrid
       /\ nestSignals = createPheromoneGrid
       /\ stats = [deliveredFood |-> 0, elapsedSeconds |-> 0]
       /\ accumulator = 0
       /\ foodSources = initialFoodSources

\* The simulation has just been started again after an earlier run made
\* passes, with food placed before the first start.
C12_Witness ==
  /\ did.op = "start"
  /\ passesRun > 0
  /\ Len(initialFoodSources) > 0
  /\ Len(ants) > 0

\* C13: after resetSimulation the status is idle, there is no simulation
\* state, the pre-placed list is empty, the published statistics are zero,
\* the accumulator is 0 and no frame callback is requested.
C13_ResetDiscardsState ==
  did.op = "reset"
    => /\ status = "idle"
       /\ simulation = "null"
       /\ StateIs(NoState)
       /\ initialFoodSources = << >>
       /\ statsSignal = [deliveredFood |-> 0, elapsedSeconds |-> 0]
       /\ accumulator = 0
       /\ animationHandle = "null"

\* A simulation that was started with pre-placed food and ran a pass has just
\* been reset.
C13_Witness ==
  /\ did.op = "reset"
  /\ did.index > 0
  /\ passesRun > 0

\* A point whose cell column or row is outside the grid.
C14_OutsideGrid(position) ==
  \/ position.x < 0
  \/ position.y < 0
  \/ position.x >= GridColumns * PHEROMONE_CELL_SIZE
  \/ position.y >= GridRows * PHEROMONE_CELL_SIZE

\* C14: a deposit (or nest-signal mark) at a point whose cell column or row
\* is outside the grid leaves every cell of every grid unchanged, and a
\* sample of any grid at such a point returns 0.
C14_OutOfGridIsNeutral ==
  /\ [](\A position \in GridPositions :
         C14_OutsideGrid(position) =>
           /\ sampleGridValue(homePheromones, position) = 0
           /\ sampleGridValue(foodPheromones, position) = 0
           /\ sampleGridValue(nestSignals, position) = 0)
  /\ [][(did'.op \in {"deposit", "mark"} /\ C14_OutsideGrid(did'.position))
          => UNCHANGED <<homePheromones, foodPheromones, nestSignals>>]_vars

C14_Witness ==
  /\ did.op = "deposit"
  /\ did.position.x < 0
  /\ homePheromones # createPheromoneGrid
  /\ foodPheromones # createPheromoneGrid
  /\ nestSignals # createPheromoneGrid

C17_PickedUp ==
  /\ Len(ants) = 1
  /\ ants[1].carryingFood
  /\ Len(foodSources) = 1
  /\ foodSources[1].capacity = 249 * CapOne
  /\ stats.deliveredFood = 0

C18_SourceActive == \E k \in 1..Len(foodSources) : foodSources[k].id = 0

\* capacity / depletionRate seconds of simulated time have elapsed
\* (elapsedSeconds in ms, the rate in thousandths, the capacity in 1e-4).
C18_TimeElapsed == stats.elapsedSeconds * foodForm.depletionRate >= foodForm.capacity * 100

C19_CountdownElapses ==
  /\ did'.op = "pass"
  /\ autoFoodEnabled
  /\ Len(foodSources) < MAX_FOOD_SOURCES
  /\ foodRespawnTimer - SIMULATION_STEP <= 0

\* The number of sources randomInt(2, 3) asks for.
C19_Drawn == IF 2 * did'.respawn.count < Milli THEN 2 ELSE 3

\* No candidate of the batch is rejected: each lies nest.radius + 6 from the
\* nest and radius + 2 of the form from every earlier one.
C19_NoneRejected ==
  \A i \in 1..C19_Drawn :
    /\ DistSq(did'.respawn.picks[i], NestPosition) >= (NEST_RADIUS + 600) * (NEST_RADIUS + 600)
    /\ \A j \in 1..(i - 1) :
         DistSq(did'.respawn.picks[i], did'.respawn.picks[j])
           >= (foodForm.radius + 200) * (foodForm.radius + 200)

\* C19 as stated: with automatic food on and no active source, the step in
\* which the countdown elapses adds at least 2 and at most 3 sources.
C19_RespawnAddsTwoOrThree ==
  [][(C19_CountdownElapses /\ Len(foodSources) = 0) => Len(foodSources') \in 2..3]_vars

\* C19, amended: that step adds at most 3 sources and never more than the 2
\* or 3 drawn; it adds exactly the number drawn when no candidate is
\* rejected, and a source whose candidates are all rejected is skipped.
C19_RespawnAddsAtMostThree ==
  [][(C19_CountdownElapses /\ Len(foodSources) = 0) =>
       /\ Len(foodSources') <= 3
       /\ Len(foodSources') <= C19_Drawn
       /\ C19_NoneRejected => Len(foodSources') = C19_Drawn]_vars

C19_Witness ==
  /\ did.op = "pass"
  /\ did.index = 0
  /\ did.respawn.count = 999
  /\ Len(foodSources) = 3

\* C20: every source added by the respawn lies at least nest.radius + 6
\* from the nest and at least that source's radius + 2 from every source
\* active when it is added, the earlier ones of its batch included.
C20_RespawnKeepsDistance ==
  [][did'.op = "pass" =>
       \A k \in 1..Len(foodSources') :
         k > Len(foodSources) =>
           /\ DistSq(foodSources'[k].position, NestPosition)
                >= (NEST_RADIUS + 600) * (NEST_RADIUS + 600)
           /\ \A j \in 1..(k - 1) :
                DistSq(foodSources'[k].position, foodSources'[j].position)
                  >= (foodSources'[j].radius + 200) * (foodSources'[j].radius + 200)]_vars

C20_Witness ==
  /\ did.op = "pass"
  /\ did.index = 1
  /\ Len(foodSources) = 3
  /\ foodSources[1].radius # foodSources[2].radius

\* C21: the time an ant has carried its load: the passes since its pickup.
C21_CarryTime == (passesRun - did.index) * SIMULATION_STEP

\* C21: a carrying ant that has not reached the nest is forced to return
\* exactly when it has carried its load for 35 s: forceReturn is false while
\* the carry time is below FOOD_RETURN_TIMEOUT and true from the update, the
\* 700th after the pickup, in which it reaches it.
C21_ForcedExactlyAtTimeout ==
  \A i \in 1..Len(ants) :
    ants[i].carryingFood /\ did.index > 0
      => (ants[i].forceReturn <=> C21_CarryTime >= FOOD_RETURN_TIMEOUT)

C21_Witness ==
  /\ Len(ants) = 1
  /\ ants[1].carryingFood
  /\ ants[1].forceReturn
  /\ passesRun - did.index = 700
  /\ settings.antSpeed = 900

\* C22: the raw time of the frame a tick has just handled.
C22_RawDelta == frames'.wallA - frames.wallA

\* C22: a tick that simulates leaves an accumulator of at least 0 and less
\* than SIMULATION_STEP, equal to the accumulator the previous tick left plus
\* the frame's scaled time, clamped to MAX_FRAME_DELTA, minus SIMULATION_STEP
\* for every update pass the tick ran.
C22_FixedStepAccounting ==
  [][did'.op = "tick"
       => /\ accumulator' >= 0
          /\ accumulator' < SIMULATION_STEP
          /\ stats'.elapsedSeconds - stats.elapsedSeconds
               = SIMULATION_STEP * (passesRun' - passesRun)
          /\ accumulator' = accumulator
                             + Min(FloorDiv(C22_RawDelta * settings.timeScale, Milli),
                                   MAX_FRAME_DELTA)
                             - SIMULATION_STEP * (passesRun' - passesRun)]_vars

\* A tick found a remainder, ran several passes and left another remainder.
C22_Witness ==
  /\ did.op = "tick"
  /\ did.index >= 2
  /\ frames.countA = 3
  /\ accumulator > 0
  /\ passesRun > did.index

\* C23: a single tick runs at most MAX_FRAME_DELTA / SIMULATION_STEP = 10
\* update passes, whatever the raw time of the frame and the time scale.
C23_NoRunawayCatchUp ==
  [][did'.op = "tick"
       => /\ passesRun' - passesRun <= MAX_FRAME_DELTA \div SIMULATION_STEP
          /\ stats'.elapsedSeconds - stats.elapsedSeconds <= MAX_FRAME_DELTA]_vars

\* A frame of 0.2 s under time scale 4, 0.8 s of scaled time, has run ten
\* passes.
C23_Witness ==
  /\ did.op = "tick"
  /\ did.index = 10
  /\ frames.wallA = 200
  /\ frames.countA = 1
  /\ settings.timeScale = 4000

\* C24: the sources of the next state that existed before the step (the
\* ids a respawn hands out are above nextFoodId).
C24_Kept == SelectSeq(foodSources', LAMBDA source : source.id <= nextFoodId)

\* C24: the phases of an update pass other than the accumulation of
\* elapsedSeconds come in the stated order.  The pass begins by evaporating the
\* three grids and resizing the population, with no ant updated and no source
\* touched; the ants are then updated one after the other, the ants of the
\* resize included; the pass ends, once every ant is updated, with the food
\* phases, which leave the ants alone and reinforce the food trail around
\* the sources depletion kept and not around the ones the respawn adds.
C24_PhasesInOrder ==
  /\ did'.op = "begin"
       => /\ did.op \notin {"begin", "ant"}
          /\ homePheromones'
               = evaporatePheromones(homePheromones, settings.evaporationRate, SIMULATION_STEP)
          /\ foodPheromones'
               = evaporatePheromones(foodPheromones, settings.evaporationRate, SIMULATION_STEP)
          /\ nestSignals'
               = evaporatePheromones(nestSignals, NEST_SIGNAL_DECAY_RATE, SIMULATION_STEP)
          /\ Len(ants') = settings.antCount
          /\ \A i \in 1..Min(Len(ants), Len(ants')) : ants'[i] = ants[i]
          /\ UNCHANGED <<foodSources, foodRespawnTimer>>
  /\ did'.op = "ant"
       => /\ did.op \in {"begin", "ant"}
          /\ did'.index = IF did.op = "begin" THEN 1 ELSE did.index + 1
          /\ Len(ants') = settings.antCount
          /\ UNCHANGED foodRespawnTimer
  /\ did'.op = "end"
       => /\ did.op \in {"begin", "ant"}
          /\ (IF did.op = "begin" THEN 0 ELSE did.index) = Len(ants)
          /\ UNCHANGED <<ants, homePheromones, nestSignals>>
          /\ foodPheromones' = reinforceFoodSources(foodPheromones, C24_Kept, SIMULATION_STEP)

\* C24: in every update pass the phases come in the stated order and the
\* step is added to elapsedSeconds only after all of them.
C24_ElapsedAccumulatedLast ==
  [][/\ C24_PhasesInOrder
     /\ did'.op \in {"begin", "ant"} => stats'.elapsedSeconds = stats.elapsedSeconds
     /\ did'.op = "end" => stats'.elapsedSeconds = stats.elapsedSeconds + SIMULATION_STEP]_vars

\* C24, amended: in every update pass the step is added to elapsedSeconds,
\* and the statistics are published, first; the other phases follow in the
\* stated order and leave elapsedSeconds alone.
C24_ElapsedAccumulatedFirst ==
  [][/\ C24_PhasesInOrder
     /\ did'.op = "begin"
          => /\ stats'.elapsedSeconds = stats.elapsedSeconds + SIMULATION_STEP
             /\ statsSignal' = stats'
     /\ did'.op \in {"ant", "end"} => stats'.elapsedSeconds = stats.elapsedSeconds]_vars

\* A pass has ended in which the respawn added sources: two passes have run
\* and the second one's respawn has placed food.
C24_Witness ==
  /\ did.op = "end"
  /\ passesRun = 2
  /\ stats.elapsedSeconds = 2 * SIMULATION_STEP
  /\ autoFoodEnabled
  /\ Len(foodSources) >= 2

\* C25: the ant an update has just handled was carrying food when it made
\* its deposit (the load changes only after the deposit).
C25_Carrying == ants[did'.index].carryingFood

\* C25: the trail value a deposit leaves in a cell.
C25_Raised(grid) ==
  Min(PheroOne,
      GridValue(grid, did'.depositCell)
        + settings.depositionRate * did'.depositCount * (PheroOne \div Milli))

\* C25: every trail deposit an ant makes in updateAnt goes into the
\* home-trail field if the ant is carrying food and into the food-trail
\* field if it is foraging.
C25_DepositsIntoFieldOfLoad ==
  [][did'.op = "ant" /\ did'.depositCount > 0
       => IF C25_Carrying
          THEN /\ did'.depositInto = "home"
               /\ foodPheromones' = foodPheromones
          ELSE /\ did'.depositInto = "food"
               /\ homePheromones' = homePheromones]_vars

\* C25, amended: every trail deposit an ant makes in updateAnt goes into the
\* food-trail field if the ant is carrying food and into the home-trail
\* field if it is foraging; the other field is left as it was.
C25_DepositsIntoOppositeField ==
  [][did'.op = "ant" /\ did'.depositCount > 0
       => IF C25_Carrying
          THEN /\ did'.depositInto = "food"
               /\ homePheromones' = homePheromones
               /\ did'.depositCell >= 0
                    => GridValue(foodPheromones', did'.depositCell) = C25_Raised(foodPheromones)
          ELSE /\ did'.depositInto = "home"
               /\ foodPheromones' = foodPheromones
               /\ did'.depositCell >= 0
                    => GridValue(homePheromones', did'.depositCell)
                         = C25_Raised(homePheromones)]_vars

\* A carrying ant has made a deposit, which the food-trail field holds.
C25_Witness ==
  /\ did.op = "ant"
  /\ did.depositCount > 0
  /\ did.depositInto = "food"
  /\ did.depositCell >= 0
  /\ ~did.delivered
  /\ ants[did.index].carryingFood
  /\ GridValue(foodPheromones, did.depositCell) > 0
  /\ GridValue(homePheromones, did.depositCell) = 0

\* C26: the ant an update is about to handle, its carry timer advanced.
C26_Ant == CarryTimer(ants[did'.index], SIMULATION_STEP)

\* C26: the heading the ant takes when the field its probes read is grid.
C26_HeadingSensing(grid, jitterRnd) ==
  SteeredHeading(C26_Ant, foodPheromones, settings,
    samplePheromoneDirection(C26_Ant, grid, nestSignals, settings,
      IF C26_Ant.carryingFood THEN CarryingProbe(C26_Ant.forceReturn) ELSE DefaultProbe),
    atan2(-C26_Ant.pathIntegration.y, -C26_Ant.pathIntegration.x),
    CenteredRandom(jitterRnd,
      FloorDiv(settings.randomness * (IF C26_Ant.forceReturn THEN 350 ELSE 1000), Milli)))

\* C26: in every update an ant deposits into the trail field its probes do
\* not read.  A foraging ant takes the heading its probes find in the food
\* trail and deposits into the home trail, leaving the food trail as it was;
\* a carrying ant takes the heading its probes find in the home trail and
\* deposits into the food trail, leaving the home trail as it was.  (The
\* heading is compared in updates that neither deliver nor find the ant
\* stalled, which set the direction again.)
C26_DepositsIntoFieldNotSensed ==
  [][did'.op = "ant"
       => /\ (~did'.delivered /\ ants'[did'.index].stalledTime = 0)
               => \E rnd \in AntDraws :
                    ants'[did'.index].direction
                      = C26_HeadingSensing(IF C26_Ant.carryingFood THEN homePheromones
                                           ELSE foodPheromones, rnd.jitter)
          /\ IF C26_Ant.carryingFood
             THEN /\ homePheromones' = homePheromones
                  /\ did'.depositCount > 0 => did'.depositInto = "food"
             ELSE /\ foodPheromones' = foodPheromones
                  /\ did'.depositCount > 0 => did'.depositInto = "home"]_vars

\* A carrying ant with home trail to its left and food trail to its right
\* has turned left, towards the home trail, and has written the food trail
\* under it.
C26_Witness ==
  /\ did.op = "ant"
  /\ did.depositCount > 0
  /\ did.depositInto = "food"
  /\ ants[1].carryingFood
  /\ ~ants[1].forceReturn
  /\ ants[1].direction > 0
  /\ ants[1].direction < 180
  /\ GridValue(foodPheromones, did.depositCell) > 0
  /\ GridValue(homePheromones, sampleGridCell(Pos(9250, 4433))) > 0
  /\ GridValue(foodPheromones, sampleGridCell(Pos(9250, 3567))) > 0

\* C27: the offset of a position from the nest.
C27_FromNest(position) ==
  [x |-> position.x - NestPosition.x, y |-> position.y - NestPosition.y]

\* C27: a carrying ant, forced to return or not, that ends its move within
\* the nest radius delivers in that same update: deliveredFood grows by
\* exactly 1 and is published, carryingFood and forceReturn become false,
\* carryingTime becomes 0, nestSignalTimer is set to NEST_SIGNAL_DURATION, the
\* ant is put just outside the nest and pathIntegration is its offset from
\* the nest there.  A carrying ant that does not deliver has ended its move
\* outside the nest radius, keeps its load and leaves deliveredFood alone;
\* an ant that was not carrying delivers nothing.
C27_DeliveryTransition ==
  [][did'.op = "ant"
       => IF did'.delivered
          THEN /\ ants[did'.index].carryingFood
               /\ did'.forcedBefore = ants[did'.index].forceReturn
               /\ stats'.deliveredFood = stats.deliveredFood + 1
               /\ statsSignal' = stats'
               /\ ~ants'[did'.index].carryingFood
               /\ ~ants'[did'.index].forceReturn
               /\ ants'[did'.index].carryingTime = 0
               /\ ants'[did'.index].nestSignalTimer = NEST_SIGNAL_DURATION
               /\ DistSq(ants'[did'.index].position, NestPosition) > NEST_RADIUS * NEST_RADIUS
               /\ DistSq(ants'[did'.index].position, NestPosition)
                    <= (NEST_RADIUS + LenOne) * (NEST_RADIUS + LenOne)
               /\ ants'[did'.index].pathIntegration
                    = C27_FromNest(ants'[did'.index].position)
          ELSE /\ stats'.deliveredFood = stats.deliveredFood
               /\ ants[did'.index].carryingFood
                    => /\ ants'[did'.index].carryingFood
                       /\ DistSq(ants'[did'.index].position, NestPosition)
                            > NEST_RADIUS * NEST_RADIUS]_vars

\* An ant has delivered: it stands outside the nest without load, its nest
\* signal armed, and the delivery is counted.
C27_Witness ==
  /\ did.op = "ant"
  /\ did.delivered
  /\ stats.deliveredFood = 1
  /\ ants[did.index].nestSignalTimer = NEST_SIGNAL_DURATION
  /\ ants[did.index].pathIntegration = C27_FromNest(ants[did.index].position)
  /\ ants[did.index].pathIntegration # [x |-> 0, y |-> 0]

\* C28: every ant is inside the world rectangle, its edges included.
C28_AntsInsideWorld ==
  \A i \in 1..Len(ants) :
    /\ ants[i].position.x >= 0
    /\ ants[i].position.x <= WORLD_WIDTH
    /\ ants[i].position.y >= 0
    /\ ants[i].position.y <= WORLD_HEIGHT

\* C28: between any two ant updates, and so at every step boundary, every
\* ant's position lies inside the world rectangle, for any speed from 0 up
\* and any sequence of update passes; an update makes at most 6 re-bias
\* attempts.
C28_PositionsStayInsideWorld ==
  /\ []C28_AntsInsideWorld
  /\ [][did'.op = "ant" => did'.attempts \in 0..6]_vars

\* An ant faster than the world is wide has used its six attempts and has
\* been clamped onto an edge of the world.
C28_Witness ==
  /\ did.op = "ant"
  /\ did.attempts = 6
  /\ settings.antSpeed > 7000
  /\ ants[did.index].position.y \in {0, WORLD_HEIGHT}
  /\ ants[did.index].position.x \notin {0, WORLD_WIDTH}
  /\ passesRun = 1

\* C29: the active sources of the pass just run, those that were there
\* before its respawn, and the number of sources its respawn added.
C29_Active == Cardinality({k \in 1..Len(foodSources') : foodSources'[k].id <= nextFoodId})
C29_Added == Len(foodSources') - C29_Active

\* C29: an update pass adds sources only when automatic food is enabled,
\* fewer than MAX_FOOD_SOURCES sources are active and the countdown elapses
\* in it; it adds at most min(3, MAX_FOOD_SOURCES - active) sources, so the
\* respawn never raises the count above MAX_FOOD_SOURCES; while automatic
\* food is disabled a pass adds nothing and leaves the countdown alone, as
\* does the user's switching it off.
C29_RespawnOnlyWhenDue ==
  [][/\ did'.op = "pass"
          => /\ C29_Added >= 0
             /\ C29_Added > 0
                  => /\ autoFoodEnabled
                     /\ C29_Active < MAX_FOOD_SOURCES
                     /\ foodRespawnTimer - SIMULATION_STEP <= 0
                     /\ C29_Added <= Min(3, MAX_FOOD_SOURCES - C29_Active)
                     /\ Len(foodSources') <= MAX_FOOD_SOURCES
             /\ ~autoFoodEnabled => C29_Added = 0 /\ foodRespawnTimer' = foodRespawnTimer
     /\ (did'.op = "user" /\ ~autoFoodEnabled')
          => foodRespawnTimer' = foodRespawnTimer]_vars

\* With three sources active the countdown elapsed and a count of 3 was
\* drawn: two sources were added, which fill the last slots.
C29_Witness ==
  /\ did.op = "pass"
  /\ did.index = MAX_FOOD_SOURCES - 2
  /\ did.respawn.count = 999
  /\ Len(foodSources) = MAX_FOOD_SOURCES
  /\ autoFoodEnabled

\* C30: the countdown elapses in the pass: automatic food is enabled, a
\* slot is free and the timer does not outlast the step.
C30_CountdownElapses ==
  /\ did'.op = "pass"
  /\ autoFoodEnabled
  /\ C29_Active < MAX_FOOD_SOURCES
  /\ foodRespawnTimer - SIMULATION_STEP <= 0

\* C30: whenever the respawn countdown elapses the timer is set to a fresh
\* draw of at least 18 s and less than 32 s, whether or not a source was
\* placed; and whenever automatic food is enabled between two steps, the
\* timer is above 0 and below 32 s.
C30_TimerRedrawn ==
  /\ [](autoFoodEnabled
          => foodRespawnTimer > 0 /\ foodRespawnTimer < FOOD_RESPAWN_MAX_DELAY)
  /\ [][C30_CountdownElapses
          => /\ foodRespawnTimer' = nextFoodRespawnDelay(did'.respawn.delay)
             /\ foodRespawnTimer' >= FOOD_RESPAWN_MIN_DELAY
             /\ foodRespawnTimer' < FOOD_RESPAWN_MAX_DELAY]_vars

\* The countdown elapsed with three sources active, every candidate was
\* rejected, and the timer holds the fresh draw.
C30_Witness ==
  /\ did.op = "pass"
  /\ passesRun = 1
  /\ autoFoodEnabled
  /\ did.index = 3
  /\ Len(foodSources) = 3
  /\ did.respawn.delay = 999
  /\ foodRespawnTimer = nextFoodRespawnDelay(999)
  /\ foodRespawnTimer > FOOD_RESPAWN_MIN_DELAY

\* C31: an ant update writes a trail field only when the ant's stalledTime,
\* after the stall bookkeeping of that update, is below 0.3 s.  When it
\* deposits, the number of deposits is the number of whole 0.1 s intervals
\* in its depositAccumulator plus the step, the accumulator keeps the
\* remainder below 0.1 s, and the cell under the ant is raised by
\* depositionRate times that number (up to the cell's maximum of 1) while the
\* other trail field is left as it was.
C31_DepositOnlyWhileMoving ==
  [][did'.op = "ant" =>
       LET i == did'.index
           acc == ants[i].depositAccumulator + SIMULATION_STEP
           count == did'.depositCount
           amount == settings.depositionRate * count * (PheroOne \div Milli)
           cell == did'.depositCell
       IN /\ (count > 0 \/ homePheromones' # homePheromones
                         \/ foodPheromones' # foodPheromones)
               => ants'[i].stalledTime < 300
          /\ count > 0 =>
               /\ count = acc \div 100
               /\ ants'[i].depositAccumulator = acc - 100 * count
               /\ ants'[i].depositAccumulator \in 0..99
               /\ did'.depositInto = "home" =>
                    /\ foodPheromones' = foodPheromones
                    /\ cell >= 0 =>
                         GridValue(homePheromones', cell)
                           = Min(PheroOne, GridValue(homePheromones, cell) + amount)
               /\ did'.depositInto = "food" =>
                    /\ homePheromones' = homePheromones
                    /\ cell >= 0 =>
                         GridValue(foodPheromones', cell)
                           = Min(PheroOne, GridValue(foodPheromones, cell) + amount)]_vars

\* An ant that cannot move and has been stalled for 0.25 s has deposited; the
\* cell under it has reached 1.
C31_Witness ==
  /\ did.op = "ant"
  /\ did.depositCount = 1
  /\ settings.antSpeed = 0
  /\ ants[did.index].stalledTime = 250
  /\ ants[did.index].depositAccumulator = 0
  /\ did.depositValue = PheroOne

\* C32: elapsedSeconds is 0.05 s times the number of update passes run since
\* startSimulation: startSimulation sets it to 0, a frame callback adds
\* SIMULATION_STEP for each pass it runs, whatever the frame's wall-clock time
\* and the timeScale, and pause, resume and the placement commands leave it
\* as it is; while a simulation exists the published stats are its stats.
C32_ElapsedCountsPasses ==
  /\ [](simulation = "state" => statsSignal = stats)
  /\ [][/\ did'.op = "start" => stats'.elapsedSeconds = 0
        /\ did'.op = "tick" =>
             stats'.elapsedSeconds = stats.elapsedSeconds + SIMULATION_STEP * did'.index
        /\ did'.op \in {"pause", "resume", "place", "placement"} => stats' = stats]_vars

\* A simulation restarted after its first pass has run one pass more, under
\* timeScale 1: two passes were run in all, 0.05 s have elapsed.
C32_Witness ==
  /\ did.op = "tick"
  /\ did.index = 1
  /\ passesRun = 2
  /\ settings.timeScale = 1000
  /\ stats.elapsedSeconds = SIMULATION_STEP
  /\ statsSignal = stats

\* C33: after any sequence of population resizes, growths and shrinks, the
\* live ants have pairwise distinct ids.
C33_DistinctIds ==
  \A i, j \in 1..Len(ants) : ants[i].id = ants[j].id => i = j

\* C34: the ants of the pass that have been updated as foragers and stand
\* inside the first source, and those of them the update has made carriers.
C34_Contenders ==
  {i \in 1..Len(ants) :
     /\ DistSq(ants[i].position, foodSources[1].position)
          <= foodSources[1].radius * foodSources[1].radius
     /\ ~ants[i].carryingFood \/ ants[i].carryingTime = 0}
C34_Picked == {i \in C34_Contenders : ants[i].carryingFood}

\* C34: an ant never picks up from a source whose capacity is 0; when the
\* agent loop of a pass ends, of the k foragers that stood inside a source of
\* integer capacity c exactly min(k, c) have become carriers and the source
\* holds c - min(k, c), before depletion looks at it.
C34_ContentionForFood ==
  /\ []((/\ pc = "ants"
          /\ cursor > Len(ants)
          /\ passesRun = 0)
         => LET c == foodSources[1].maxCapacity \div CapOne
                k == Cardinality(C34_Contenders)
            IN /\ Cardinality(C34_Picked) = Min(k, c)
               /\ foodSources[1].capacity = (c - Min(k, c)) * CapOne
               /\ \A i \in 1..Len(ants) :
                    ants[i].carryingFood /\ ants[i].carryingTime = 0 => i \in C34_Picked)
  /\ [][did'.op = "ant" /\ did'.pickup > 0 =>
          /\ foodSources[did'.pickup].capacity > 0
          /\ ~ants[did'.index].carryingFood]_vars

\* Three foragers stood inside a source of two units: the first two have
\* picked up, the third has not, and the source is empty.
C34_Witness ==
  /\ pc = "ants"
  /\ cursor > Len(ants)
  /\ passesRun = 0
  /\ Len(ants) = 3
  /\ Cardinality(C34_Contenders) = 3
  /\ C34_Picked = {1, 2}
  /\ foodSources[1].maxCapacity = 2 * CapOne
  /\ foodSources[1].capacity = 0

\* C35: the food accounted for: the units delivered and the units the live
\* ants carry.
C35_Carriers == Cardinality({i \in 1..Len(ants) : ants[i].carryingFood})
C35_Accounted == stats.deliveredFood + C35_Carriers

\* C35: food is conserved.  deliveredFood never decreases; an ant update
\* that picks up raises the food accounted for (delivered plus carried) by at
\* most one, and no other step raises it, so that from a start with nothing
\* delivered and nothing carried it never exceeds the number of pickups; an
\* update that picks up does not deliver.
C35_FoodConservation ==
  [][/\ stats'.deliveredFood >= stats.deliveredFood
     /\ C35_Accounted' <= C35_Accounted
                            + (IF did'.op = "ant" /\ did'.pickup > 0 THEN 1 ELSE 0)
     /\ did'.op = "ant" => ~(did'.pickup > 0 /\ did'.delivered)]_vars

\* Two ants have picked up from the source beside the nest and the first of
\* them has delivered: of the two units taken one is delivered and one is
\* carried.
C35_Witness ==
  /\ did.op = "ant"
  /\ did.delivered
  /\ stats.deliveredFood = 1
  /\ C35_Carriers = 1
  /\ Len(foodSources) = 1
  /\ foodSources[1].maxCapacity - foodSources[1].capacity = 2 * CapOne

\* C36: whatever start, pause, resume and reset commands have been issued,
\* the status is idle exactly when there is no simulation state;
\* pauseSimulation acts only on a running simulation, which it pauses, and
\* resumeSimulation only on a paused one, which it sets running; neither
\* replaces or discards the state.
C36_LifecycleInvariant ==
  /\ [](status = "idle" <=> simulation = "null")
  /\ [][/\ did'.op = "pause" => status = "running" /\ status' = "paused"
        /\ did'.op = "resume" => status = "paused" /\ status' = "running"
        /\ did'.op \in {"pause", "resume"} => UNCHANGED <<simulation, simVars>>]_vars

\* A simulation has been started, paused and resumed.
C36_Witness ==
  /\ did.op = "resume"
  /\ userActions = 3
  /\ status = "running"
  /\ simulation = "state"
  /\ Len(ants) > 0

\* C37: whatever commands and frame callbacks have run, the browser holds at
\* most one frame callback, the one animationHandle names, and it holds one
\* only while the status is running; a tick that finds the status not
\* running requests no further callback.
C37_SingleFrameLoop ==
  /\ [](/\ pendingFrames \in {0, 1}
        /\ pendingFrames = 1 <=> animationHandle = "pending"
        /\ pendingFrames = 1 => status = "running")
  /\ [][did'.op = "tick" /\ status # "running" => pendingFrames' = pendingFrames - 1]_vars

\* startSimulation has been called as the second command, on a simulation
\* that had run a pass and had its next frame requested: one callback is held.
C37_Witness ==
  /\ did.op = "start"
  /\ userActions = 2
  /\ passesRun > 0
  /\ status = "running"
  /\ pendingFrames = 1

\* C38: wall-clock time spent paused, or before the first frame, is never
\* simulated.  startSimulation and pauseSimulation clear lastTimestamp; the
\* tick that finds it cleared records its timestamp and runs no update pass,
\* leaving the state and the accumulator as they are; every other tick of a
\* running simulation adds to the accumulator the scaled time of one frame
\* interval, the time since the tick before it.
C38_PausedTimeNotSimulated ==
  [][/\ did'.op \in {"start", "pause"} => lastTimestamp' = << >>
     /\ (/\ did'.op = "tick"
         /\ status = "running"
         /\ simulation = "state")
        => IF lastTimestamp = << >>
           THEN /\ lastTimestamp' = <<0>>
                /\ did'.index = 0
                /\ UNCHANGED <<simVars, accumulator, passesRun>>
           ELSE /\ lastTimestamp' = <<0>>
                /\ \E rawDelta \in FrameDeltas :
                     accumulator' + SIMULATION_STEP * did'.index
                       = accumulator + ScaledDelta(rawDelta, settings.timeScale)]_vars

\* A simulation that ran a pass was paused and resumed; the first tick after
\* the resume has recorded its timestamp and run no pass.
C38_Witness ==
  /\ did.op = "tick"
  /\ did.index = 0
  /\ userActions = 3
  /\ status = "running"
  /\ passesRun = 1
  /\ lastTimestamp = <<0>>
  /\ stats.elapsedSeconds = SIMULATION_STEP

\* C39: the pre-placed food list is untouched by the simulation.  No frame
\* callback changes initialFoodSources; a source placed while running or
\* paused goes to the live state only; the list changes only by a placement
\* while idle and by a reset; and startSimulation, called again without a
\* reset, gives the state the pre-placed sources, each at its original
\* capacity.
C39_PrePlacedFoodUntouched ==
  [][/\ did'.op = "tick" => initialFoodSources' = initialFoodSources
     /\ did'.op = "place" /\ status # "idle"
        => /\ initialFoodSources' = initialFoodSources
           /\ Len(foodSources') = Len(foodSources) + 1
     /\ initialFoodSources' # initialFoodSources
        => \/ did'.op = "place" /\ status = "idle"
           \/ did'.op = "reset"
     /\ did'.op = "start"
        => /\ initialFoodSources' = initialFoodSources
           /\ foodSources' = initialFoodSources
           /\ \A k \in 1..Len(foodSources') :
                foodSources'[k].capacity = foodSources'[k].maxCapacity]_vars

\* startSimulation has been called as the second command, on a simulation
\* whose ant had taken a unit from the pre-placed source: the new state has
\* the source at its full capacity.
C39_Witness ==
  /\ did.op = "start"
  /\ userActions = 2
  /\ passesRun > 0
  /\ Len(initialFoodSources) = 1
  /\ foodSources = initialFoodSources
  /\ foodSources[1].capacity = 10 * CapOne

\* C40: a forced return is left only by delivery. Across every update, an ant
\* whose forceReturn is true and that is still in the colony either keeps
\* forceReturn true and its load, or has delivered at the nest in that update
\* (its load is gone and deliveredFood went up by one); it never becomes a
\* carrying ant with forceReturn false again.
C40_ForcedLeftOnlyByDelivery ==
  [][\A i \in 1..Len(ants) :
       i <= Len(ants') /\ ants[i].forceReturn
         => \/ ants'[i].forceReturn /\ ants'[i].carryingFood
            \/ /\ ~ants'[i].forceReturn
               /\ ~ants'[i].carryingFood
               /\ stats'.deliveredFood = stats.deliveredFood + 1]_vars

C40_Witness ==
  /\ Len(ants) = 1
  /\ settings.antSpeed = 900
  /\ ~ants[1].carryingFood
  /\ ~ants[1].forceReturn
  /\ stats.deliveredFood = 1
  /\ passesRun - did.index > 700

====
